---- MODULE Spec2Model ----
(***************************************************************************)
(* A model of the Anor storage engine (anor-storage/src/storage.rs).       *)
(*                                                                         *)
(* Spec         : the in-process locking protocol of Storage::lock,        *)
(*                GlobalLock::lock / unlock / drop and the facade          *)
(*                operations, run by NThreads threads.                     *)
(* InstanceSpec : the instance lock of a data directory, taken by          *)
(*                Storage::init and released by Storage::close, with       *)
(*                NInstances engines opened on the same directory.         *)
(* StoreSpec    : one engine and its data directory: the facade            *)
(*                operations on the in-memory map, flush, load, close      *)
(*                and open.  The writes of the engine do not fail, the     *)
(*                file system is case-sensitive, and a blob file can be    *)
(*                lost while the engine is closed.                         *)
(* FacadeSpec   : StoreSpec's operations with the reads of a caller.       *)
(* PacketSpec   : the framing of a file: build_storage_packet and          *)
(*                parse_packet on the bytes of a file.                     *)
(* PoolSpec     : the ThreadPool of anor-utils: execute, the loop of the   *)
(*                NWorkers worker threads and the drop of the pool.        *)
(* RecoverySpec : one engine and its data directory when blob files and   *)
(*                the manifest can be lost at any time and the process     *)
(*                can stop inside flush.                                   *)
(* ReplacedBlobSpec : one engine and a data directory in which a blob file *)
(*                can be copied over another while no engine is open.      *)
(* IoFaultSpec  : one engine on a file system whose writes and deletions   *)
(*                can fail during flush.                                   *)
(***************************************************************************)
EXTENDS Integers, Sequences, FiniteSets, TLC

(***************************************************************************)
(* Bounds                                                                  *)
(***************************************************************************)
NThreads == 3

NInstances == 2

\* item versions are 0..MaxVersion
MaxVersion == 1

\* inner objects of the persisted items are the numbers 1..MaxObject
MaxObject == 2

\* longest payload of a packet, in bytes
MaxPayloadLen == 2

\* the type and codec bytes of a packet range over 0..MaxTag
MaxTag == 6
NWorkers == 2
MaxJobs == 3

Threads == 1..NThreads

\* Option::None of global_lock_param
None == 0

\* Option<T>: None is the empty sequence, Some(v) is <<v>>
Absent == <<>>

Some(v) == <<v>>

\* keys of the in-memory map: key 0 is the shared object of the
\* multithread_map_* tests ("my_map"), key t is thread t's own object
\* ("my_map-<t>") of the multithread_multiobject tests
MapKeys == 0..NThreads

\* inner objects: the set of threads whose entries the inner map holds
Objects == SUBSET Threads

VARIABLES
    workload,           \* what the threads run (drawn at Init)
    storage_map,        \* Storage.storage_map: the HashMap behind the mutex
    storage_map_guard,  \* threads holding the MutexGuard of storage_map
    global_lock,        \* threads holding the MutexGuard of Storage.global_lock
    global_lock_param,  \* Storage.global_lock_param: Option<ThreadId>
    method_lock_sync,   \* threads holding the MutexGuard of Storage.method_lock_sync
    pc,                 \* each thread's position
    ip,                 \* each thread's index of the current call of its program
    guard,              \* GlobalLock.guard.is_some() of the thread's own handle
    wait,               \* wait_for_global_lock_release of the thread's lock() call
    snapshot,           \* the map as read by the thread's running HashMap operation
    object,             \* the thread's local copy of an inner object
    atomicity           \* history: what happened since the holder's last operation

lockVars == <<workload, storage_map, storage_map_guard, global_lock,
              global_lock_param, method_lock_sync, pc, ip, guard, wait,
              snapshot, object, atomicity>>

VARIABLES
    instance_pc,        \* each engine's position in open / close
    instance_lock,      \* engines holding the exclusive lock of D/storage-lock
    lock_try_count,     \* the local lock_try_count of each engine's init
    lock_attempts,      \* failed try_lock_exclusive calls of each engine's init
    lock_slept,         \* milliseconds slept in each engine's init
    flush_failed        \* engines whose flush in close returned Err

instanceVars == <<instance_pc, instance_lock, lock_try_count, lock_attempts,
                  lock_slept, flush_failed>>

VARIABLES
    engine,             \* "closed" or "open": whether the Storage value exists
    items,              \* the HashMap of the engine: key -> Option<StorageItem>
    storage_info,       \* the file D/storage-info
    storage_data,       \* the files of D/storage/: file name -> Option<file>
    last,               \* history: the last operations of the caller
    saved,              \* history: the map at the last flush
    to_remove,          \* history: the files the last flush removed
    reflushed,          \* history: the last two operations were both flush
    inner_updated,      \* history: keys whose last write was update_inner_object
    expected            \* history: per key, the object expected after the drop

storeVars ==
    <<engine, items, storage_info, storage_data, last, saved, to_remove, reflushed,
      inner_updated, expected>>

VARIABLES
    returned            \* the caller's local value: what its last read returned

callerVars == <<returned>>

VARIABLES
    buf,                \* the bytes of a file handed to the parser
    parsed,             \* the outcome of the last parse or load of buf
    built               \* the packet build_storage_packet made and buf holds, if any

packetVars == <<buf, parsed, built>>

VARIABLES
    pool_pc,            \* the position of the thread that owns the ThreadPool
    sender,             \* ThreadPool.sender.is_some()
    channel,            \* the jobs sent on the mpsc channel and not yet received
    receiver,           \* the worker holding the MutexGuard of the receiver, or 0
    worker_pc,          \* each worker thread's position in its loop
    worker_job,         \* the job each worker received last
    runs,               \* history: how many times each job was called
    sent,               \* history: the number of jobs passed to execute
    join_next           \* the index of the worker Drop joins next

poolVars == <<pool_pc, sender, channel, receiver, worker_pc, worker_job, runs, sent,
              join_next>>

vars == <<lockVars, instanceVars, storeVars, callerVars, packetVars, poolVars>>

(***************************************************************************)
(* Programs of the threads                                                 *)
(***************************************************************************)
Call(op, key) == [op |-> op, key |-> key]

\* multithread_map_insert_test: the closure of each spawned thread
MapInsertThread(t) ==
    << Call("global_lock", 0), Call("get_inner_object", 0),
       Call("update_inner_object_add", 0), Call("unlock", 0), Call("drop", 0) >>

\* multithread_map_remove_test: the closure of each spawned thread
MapRemoveThread(t) ==
    << Call("global_lock", 0), Call("get_inner_object", 0),
       Call("update_inner_object_del", 0), Call("unlock", 0), Call("drop", 0) >>

\* multithread_multiobject_test, first phase: insert of the thread's own object
MultiobjectInsertThread(t) == << Call("insert", t) >>

\* multithread_multiobject_test, last phase: remove of the thread's own object
MultiobjectRemoveThread(t) == << Call("remove", t) >>

\* a holder issuing two operations, a thread issuing one operation without
\* the Global Lock, and threads that lock, unlock explicitly and drop later
MixedThread(t) ==
    CASE t = 1 -> << Call("global_lock", 0), Call("insert", 1),
                     Call("get_inner_object", 1), Call("unlock", 0), Call("drop", 0) >>
      [] t = 2 -> << Call("insert", 2) >>
      [] OTHER -> << Call("global_lock", 0), Call("unlock", 0), Call("drop", 0) >>

\* Storage::flush and then Storage::load, called by one thread: the Global
\* Lock, the facade operations of the body, unlock() and the drop of the handle
FlushLoadThread(t) ==
    IF t = 1
    THEN << Call("global_lock", 0), Call("keys", 0), Call("get", 1),
            Call("unlock", 0), Call("drop", 0),
            Call("global_lock", 0), Call("clear", 0), Call("insert", 1),
            Call("unlock", 0), Call("drop", 0) >>
    ELSE << >>

Workloads == {"map_insert", "map_remove", "multiobject_insert",
              "multiobject_remove", "mixed", "flush_load"}

Program(w, t) ==
    CASE w = "map_insert" -> MapInsertThread(t)
      [] w = "map_remove" -> MapRemoveThread(t)
      [] w = "multiobject_insert" -> MultiobjectInsertThread(t)
      [] w = "multiobject_remove" -> MultiobjectRemoveThread(t)
      [] w = "flush_load" -> FlushLoadThread(t)
      [] OTHER -> MixedThread(t)

\* the map the main thread prepares before it spawns the threads
InitialMap(w) ==
    CASE w = "map_insert" -> [k \in MapKeys |-> IF k = 0 THEN Some({}) ELSE Absent]
      [] w = "map_remove" -> [k \in MapKeys |-> IF k = 0 THEN Some(Threads) ELSE Absent]
      [] w = "multiobject_remove" -> [k \in MapKeys |-> IF k = 0 THEN Absent ELSE Some({})]
      [] OTHER -> [k \in MapKeys |-> Absent]

\* no HashMap operation of the thread is running
NoSnapshot == [k \in MapKeys |-> Absent]

\* the first step of a call
EntryPc(call) ==
    CASE call.op = "global_lock" -> "global_lock"
      [] call.op \in {"unlock", "drop"} -> "unlock"
      [] OTHER -> "lock"

\* the position of thread t when its call number i is to start
PcAt(w, t, i) ==
    IF i > Len(Program(w, t)) THEN "done" ELSE EntryPc(Program(w, t)[i])

CurrentCall(t) == Program(workload, t)[ip[t]]

\* thread t returns from its current call
Return(t) ==
    /\ ip' = [ip EXCEPT ![t] = @ + 1]
    /\ pc' = [pc EXCEPT ![t] = PcAt(workload, t, ip[t] + 1)]

Goto(t, label) == pc' = [pc EXCEPT ![t] = label]

(***************************************************************************)
(* std::sync::Mutex::lock: blocks while another guard is alive             *)
(***************************************************************************)
MutexFree(holders) == holders = {}

\* global_lock() has returned to t and t has not started to release
HoldsGlobalLock(t) == guard[t] /\ pc[t] \notin {"global_lock_set", "unlock_release"}

(***************************************************************************)
(* HashMap operations of the facade                                        *)
(***************************************************************************)
Mutating(call) == call.op \in {"insert", "remove", "clear", "update_inner_object_add",
                               "update_inner_object_del"}

\* the map after the operation, computed from the map the operation read
ApplyCall(call, map, t) ==
    CASE call.op = "insert" -> [map EXCEPT ![call.key] = Some({})]
      [] call.op = "remove" -> [map EXCEPT ![call.key] = Absent]
      [] call.op = "clear" -> [k \in MapKeys |-> Absent]
      [] call.op = "update_inner_object_add" ->
            IF map[call.key] = Absent THEN map
            ELSE [map EXCEPT ![call.key] = Some(object[t] \cup {t})]
      [] call.op = "update_inner_object_del" ->
            IF map[call.key] = Absent THEN map
            ELSE [map EXCEPT ![call.key] = Some(object[t] \ {t})]
      [] OTHER -> map

\* the history of the Global Lock holders' sequences after thread t's
\* operation took effect
AtomicityAfter(t) ==
    [x \in Threads |->
        IF x = t
        THEN IF ~HoldsGlobalLock(t) THEN atomicity[t]
             ELSE IF atomicity[t] = "interleaved" THEN "violated"
             ELSE IF atomicity[t] = "none" THEN "first_done"
             ELSE atomicity[t]
        ELSE IF HoldsGlobalLock(x) /\ atomicity[x] = "first_done"
                  /\ Mutating(CurrentCall(t))
             THEN "interleaved"
             ELSE atomicity[x]]

(***************************************************************************)
(* Init                                                                    *)
(***************************************************************************)
LockInit ==
    /\ workload \in Workloads
    /\ storage_map = InitialMap(workload)
    /\ storage_map_guard = {}
    /\ global_lock = {}
    /\ global_lock_param = None
    /\ method_lock_sync = {}
    /\ ip = [t \in Threads |-> 1]
    /\ pc = [t \in Threads |-> PcAt(workload, t, 1)]
    /\ guard = [t \in Threads |-> FALSE]
    /\ wait = [t \in Threads |-> FALSE]
    /\ snapshot = [t \in Threads |-> NoSnapshot]
    /\ object = [t \in Threads |-> {}]
    /\ atomicity = [t \in Threads |-> "none"]


(***************************************************************************)
(* GlobalLock::lock (called by Storage::global_lock)                       *)
(***************************************************************************)
\* a global_lock() that does not wait for the mutex
GlobalLockAcquireNoWait(t) ==
    /\ pc[t] = "global_lock"
    /\ global_lock' = global_lock \cup {t}
    /\ guard' = [guard EXCEPT ![t] = TRUE]
    /\ Goto(t, "global_lock_set")
    /\ UNCHANGED <<poolVars, instanceVars, storeVars, callerVars, packetVars,
                 workload, storage_map, storage_map_guard, global_lock_param,
                   method_lock_sync, ip, wait, snapshot, object, atomicity>>

\* storage.rs:72  let guard = take_guard!(storage.global_lock.lock());
GlobalLockAcquire(t) ==
    /\ pc[t] = "global_lock"
    /\ MutexFree(global_lock)
    /\ global_lock' = global_lock \cup {t}
    /\ guard' = [guard EXCEPT ![t] = TRUE]
    /\ Goto(t, "global_lock_set")
    /\ UNCHANGED <<poolVars, instanceVars, storeVars, callerVars, packetVars,
                 workload, storage_map, storage_map_guard, global_lock_param,
                   method_lock_sync, ip, wait, snapshot, object, atomicity>>

\* storage.rs:73  Self::set_global_lock_param(storage, Some(thread::current().id()));
GlobalLockSetParam(t) ==
    /\ pc[t] = "global_lock_set"
    /\ global_lock_param' = t
    /\ Return(t)
    /\ UNCHANGED <<poolVars, instanceVars, storeVars, callerVars, packetVars,
                 workload, storage_map, storage_map_guard, global_lock,
                   method_lock_sync, guard, wait, snapshot, object, atomicity>>

(***************************************************************************)
(* GlobalLock::unlock, also run by Drop for GlobalLock                     *)
(***************************************************************************)
\* storage.rs:82  Self::set_global_lock_param(self.storage, None);
UnlockClearParam(t) ==
    /\ pc[t] = "unlock"
    /\ global_lock_param' = None
    /\ Goto(t, "unlock_release")
    /\ atomicity' = [atomicity EXCEPT ![t] = IF guard[t] THEN "none" ELSE @]
    /\ UNCHANGED <<poolVars, instanceVars, storeVars, callerVars, packetVars,
                 workload, storage_map, storage_map_guard, global_lock,
                   method_lock_sync, ip, guard, wait, snapshot, object>>

\* storage.rs:83  self.guard = None;
UnlockDropGuard(t) ==
    /\ pc[t] = "unlock_release"
    /\ global_lock' = IF guard[t] THEN global_lock \ {t} ELSE global_lock
    /\ guard' = [guard EXCEPT ![t] = FALSE]
    /\ Return(t)
    /\ UNCHANGED <<poolVars, instanceVars, storeVars, callerVars, packetVars,
                 workload, storage_map, storage_map_guard, global_lock_param,
                   method_lock_sync, wait, snapshot, object, atomicity>>

(***************************************************************************)
(* Storage::lock                                                           *)
(***************************************************************************)
\* storage.rs:350  let guard_method_lock = take_guard!(self.method_lock_sync.lock());
LockMethodSync(t) ==
    /\ pc[t] = "lock"
    /\ MutexFree(method_lock_sync)
    /\ method_lock_sync' = method_lock_sync \cup {t}
    /\ Goto(t, "lock_read_param")
    /\ UNCHANGED <<poolVars, instanceVars, storeVars, callerVars, packetVars,
                 workload, storage_map, storage_map_guard, global_lock,
                   global_lock_param, ip, guard, wait, snapshot, object, atomicity>>

\* storage.rs:355-363  wait_for_global_lock_release
LockReadParam(t) ==
    /\ pc[t] = "lock_read_param"
    /\ wait' = [wait EXCEPT ![t] = global_lock_param # None /\ global_lock_param # t]
    /\ Goto(t, IF wait'[t] THEN "lock_global" ELSE "lock_map")
    /\ UNCHANGED <<poolVars, instanceVars, storeVars, callerVars, packetVars,
                 workload, storage_map, storage_map_guard, global_lock,
                   global_lock_param, method_lock_sync, ip, guard, snapshot,
                   object, atomicity>>

\* storage.rs:371 -> 72  option_global_lock = Some(self.global_lock());
LockGlobalAcquire(t) ==
    /\ pc[t] = "lock_global"
    /\ MutexFree(global_lock)
    /\ global_lock' = global_lock \cup {t}
    /\ Goto(t, "lock_global_set")
    /\ UNCHANGED <<poolVars, instanceVars, storeVars, callerVars, packetVars,
                 workload, storage_map, storage_map_guard, global_lock_param,
                   method_lock_sync, ip, guard, wait, snapshot, object, atomicity>>

\* storage.rs:371 -> 73
LockGlobalSetParam(t) ==
    /\ pc[t] = "lock_global_set"
    /\ global_lock_param' = t
    /\ Goto(t, "lock_map")
    /\ UNCHANGED <<poolVars, instanceVars, storeVars, callerVars, packetVars,
                 workload, storage_map, storage_map_guard, global_lock,
                   method_lock_sync, ip, guard, wait, snapshot, object, atomicity>>

\* a lock() that hands out the map without taking its mutex
LockStorageMapNoWait(t) ==
    /\ pc[t] = "lock_map"
    /\ storage_map_guard' = storage_map_guard \cup {t}
    /\ Goto(t, IF wait[t] THEN "lock_global_unlock" ELSE "lock_method_release")
    /\ UNCHANGED <<poolVars, instanceVars, storeVars, callerVars, packetVars,
                 workload, storage_map, global_lock, global_lock_param,
                   method_lock_sync, ip, guard, wait, snapshot, object, atomicity>>

\* storage.rs:374  let guard_storage = take_guard!(self.storage_map.lock());
LockStorageMap(t) ==
    /\ pc[t] = "lock_map"
    /\ MutexFree(storage_map_guard)
    /\ storage_map_guard' = storage_map_guard \cup {t}
    /\ Goto(t, IF wait[t] THEN "lock_global_unlock" ELSE "lock_method_release")
    /\ UNCHANGED <<poolVars, instanceVars, storeVars, callerVars, packetVars,
                 workload, storage_map, global_lock, global_lock_param,
                   method_lock_sync, ip, guard, wait, snapshot, object, atomicity>>

\* storage.rs:377 -> 82  global_lock.unlock(): the owner is cleared
LockGlobalUnlockClear(t) ==
    /\ pc[t] = "lock_global_unlock"
    /\ global_lock_param' = None
    /\ Goto(t, "lock_global_release")
    /\ UNCHANGED <<poolVars, instanceVars, storeVars, callerVars, packetVars,
                 workload, storage_map, storage_map_guard, global_lock,
                   method_lock_sync, ip, guard, wait, snapshot, object, atomicity>>

\* an unlock() in lock() that keeps the guard of the global mutex
LockGlobalUnlockKeep(t) ==
    /\ pc[t] = "lock_global_release"
    /\ Goto(t, "lock_global_drop")
    /\ UNCHANGED <<poolVars, instanceVars, storeVars, callerVars, packetVars,
                 workload, storage_map, storage_map_guard, global_lock, global_lock_param,
                   method_lock_sync, ip, guard, wait, snapshot, object, atomicity>>

\* storage.rs:377 -> 83  global_lock.unlock(): the guard is dropped
LockGlobalUnlockRelease(t) ==
    /\ pc[t] = "lock_global_release"
    /\ global_lock' = global_lock \ {t}
    /\ Goto(t, "lock_global_drop")
    /\ UNCHANGED <<poolVars, instanceVars, storeVars, callerVars, packetVars,
                 workload, storage_map, storage_map_guard, global_lock_param,
                   method_lock_sync, ip, guard, wait, snapshot, object, atomicity>>

\* storage.rs:378 -> 66 -> 82,83  the handle leaves its scope: Drop runs
\* unlock() once more, which clears the owner again (the guard is gone)
LockGlobalDrop(t) ==
    /\ pc[t] = "lock_global_drop"
    /\ global_lock_param' = None
    /\ Goto(t, "lock_method_release")
    /\ UNCHANGED <<poolVars, instanceVars, storeVars, callerVars, packetVars,
                 workload, storage_map, storage_map_guard, global_lock,
                   method_lock_sync, ip, guard, wait, snapshot, object, atomicity>>

\* storage.rs:381  drop(guard_method_lock);
LockMethodRelease(t) ==
    /\ pc[t] = "lock_method_release"
    /\ method_lock_sync' = method_lock_sync \ {t}
    /\ Goto(t, "map_read")
    /\ UNCHANGED <<poolVars, instanceVars, storeVars, callerVars, packetVars,
                 workload, storage_map, storage_map_guard, global_lock,
                   global_lock_param, ip, guard, wait, snapshot, object, atomicity>>

(***************************************************************************)
(* The facade operation on the guarded HashMap                             *)
(***************************************************************************)
\* the HashMap operation reads the table
MapRead(t) ==
    /\ pc[t] = "map_read"
    /\ snapshot' = [snapshot EXCEPT ![t] = storage_map]
    /\ Goto(t, "map_write")
    /\ UNCHANGED <<poolVars, instanceVars, storeVars, callerVars, packetVars,
                 workload, storage_map, storage_map_guard, global_lock,
                   global_lock_param, method_lock_sync, ip, guard, wait, object,
                   atomicity>>

\* a facade operation that returns without dropping the MutexGuard of the map
MapWriteKeepGuard(t) ==
    /\ pc[t] = "map_write"
    /\ storage_map' = ApplyCall(CurrentCall(t), snapshot[t], t)
    /\ object' = [object EXCEPT ![t] =
            IF CurrentCall(t).op = "get_inner_object"
               /\ snapshot[t][CurrentCall(t).key] # Absent
            THEN snapshot[t][CurrentCall(t).key][1] ELSE @]
    /\ snapshot' = [snapshot EXCEPT ![t] = NoSnapshot]
    /\ atomicity' = AtomicityAfter(t)
    /\ Return(t)
    /\ UNCHANGED <<poolVars, instanceVars, storeVars, callerVars, packetVars,
                 workload, storage_map_guard, global_lock, global_lock_param,
                   method_lock_sync, guard, wait>>

\* the HashMap operation takes effect and the temporary MutexGuard is dropped
MapWrite(t) ==
    /\ pc[t] = "map_write"
    /\ storage_map' = ApplyCall(CurrentCall(t), snapshot[t], t)
    /\ object' = [object EXCEPT ![t] =
            IF CurrentCall(t).op = "get_inner_object"
               /\ snapshot[t][CurrentCall(t).key] # Absent
            THEN snapshot[t][CurrentCall(t).key][1] ELSE @]
    /\ snapshot' = [snapshot EXCEPT ![t] = NoSnapshot]
    /\ storage_map_guard' = storage_map_guard \ {t}
    /\ atomicity' = AtomicityAfter(t)
    /\ Return(t)
    /\ UNCHANGED <<poolVars, instanceVars, storeVars, callerVars, packetVars,
                 workload, global_lock, global_lock_param, method_lock_sync,
                   guard, wait>>

LockNext ==
    \E t \in Threads :
        \/ GlobalLockAcquire(t)
        \/ GlobalLockSetParam(t)
        \/ UnlockClearParam(t)
        \/ UnlockDropGuard(t)
        \/ LockMethodSync(t)
        \/ LockReadParam(t)
        \/ LockGlobalAcquire(t)
        \/ LockGlobalSetParam(t)
        \/ LockStorageMap(t)
        \/ LockGlobalUnlockClear(t)
        \/ LockGlobalUnlockRelease(t)
        \/ LockGlobalDrop(t)
        \/ LockMethodRelease(t)
        \/ MapRead(t)
        \/ MapWrite(t)

AllDone == \A t \in Threads : pc[t] = "done"

(***************************************************************************)
(* Properties of the locking protocol                                      *)
(***************************************************************************)

\* C1: between two operations that a thread issues while it holds the Global
\* Lock, no mutating map operation of another thread takes effect.
GlobalLockSequenceAtomic == \A x \in Threads : atomicity[x] # "violated"

\* C2: while thread x holds the Global Lock, no other thread acquires the
\* mutex of the map and no other thread changes the map.
GlobalLockExclusion ==
    [][\A x \in Threads :
          HoldsGlobalLock(x) =>
              /\ (storage_map_guard' \ storage_map_guard) \subseteq {x}
              /\ (storage_map' # storage_map => pc[x] = "map_write")]_vars

\* C3: no state is reachable in which the holder of the Global Lock waits for
\* method_lock_sync in lock() while the thread owning method_lock_sync waits
\* for the global mutex that the holder owns.
HolderReentryNeverBlocks ==
    \A x \in Threads, y \in Threads :
        ~ ( /\ HoldsGlobalLock(x)
            /\ pc[x] = "lock"
            /\ x \in global_lock
            /\ y \in method_lock_sync
            /\ pc[y] = "lock_global" )

\* C4: when every thread runs global_lock(); get_inner_object; modify;
\* update_inner_object; unlock(), the threads never get stuck before all of
\* them have finished, and the final object holds every thread's modification.
NoLostUpdateUnderGlobalLock ==
    /\ workload \in {"map_insert", "map_remove"} => (AllDone \/ ENABLED LockNext)
    /\ (workload = "map_insert" /\ AllDone) => storage_map[0] = Some(Threads)
    /\ (workload = "map_remove" /\ AllDone) => storage_map[0] = Some({})

NoLostUpdateWitness ==
    /\ workload = "map_insert"
    /\ AllDone
    /\ storage_map[0] = Some(Threads)

\* C5: at most one thread holds the mutex of the map; concurrent inserts of
\* distinct keys all arrive, and concurrent removes of those keys leave the
\* map empty.
SingleOperationsSerialized ==
    /\ Cardinality(storage_map_guard) <= 1
    /\ (workload = "multiobject_insert" /\ AllDone) =>
            \A t \in Threads : storage_map[t] # Absent
    /\ (workload = "multiobject_remove" /\ AllDone) =>
            \A k \in MapKeys : storage_map[k] = Absent

SingleOperationsWitness ==
    /\ workload = "multiobject_insert"
    /\ AllDone
    /\ \A t \in Threads : storage_map[t] # Absent

\* C24  While thread x holds the Global Lock (global_lock() has returned to
\* x and x has not started to release), global_lock_param is Some(x); and
\* whenever global_lock_param is Some(t), thread t holds the global mutex.
OwnerTracksHolder ==
    /\ \A x \in Threads : HoldsGlobalLock(x) => global_lock_param = x
    /\ global_lock_param # None => global_lock_param \in global_lock

\* the unlock() of thread t that Drop runs on a handle released before: the
\* drop after an explicit unlock(), and the drop of the handle of lock()
SecondRelease(t) ==
    \/ UnlockClearParam(t) /\ ~guard[t]
    \/ UnlockDropGuard(t) /\ ~guard[t]
    \/ LockGlobalDrop(t)

\* C25  Releasing a GlobalLock a second time changes neither global_lock_param
\* nor the global mutex.
SecondReleaseNoEffect ==
    [][\A t \in Threads :
          SecondRelease(t) =>
              /\ global_lock_param' = global_lock_param
              /\ global_lock' = global_lock]_vars

\* thread t is inside Storage::lock
InLock(t) ==
    pc[t] \in {"lock_read_param", "lock_global", "lock_global_set", "lock_map",
               "lock_global_unlock", "lock_global_release", "lock_global_drop",
               "lock_method_release"}

MapMutexTakenLast ==
    \A t \in storage_map_guard : pc[t] \notin {"lock", "global_lock", "lock_global"}

\* flush has dropped the guard of keys() and acquires the locks of get()
MapMutexTakenLastWitness ==
    /\ workload = "flush_load"
    /\ ip[1] = 3
    /\ pc[1] = "lock_read_param"
    /\ 1 \in method_lock_sync
    /\ storage_map_guard = {}

(***************************************************************************)
(* The instance lock: Storage::open_with_config, init, close               *)
(***************************************************************************)
Instances == 1..NInstances

\* storage.rs:154  let mut lock_try_count = 100;
LockTryCount == 100

\* storage_const.rs:2
INSTANCE_LOCK_TIMEOUT_MILLISECONDS == 5000

\* storage.rs:155-156  the sleep between two tries, in milliseconds (u32 division)
lock_try_duration == INSTANCE_LOCK_TIMEOUT_MILLISECONDS \div LockTryCount

\* fs2 try_lock_exclusive: fails while another open file holds the lock
FlockFree(holders) == holders = {}

\* no thread runs while the engines are opened and closed
LockIdle ==
    /\ workload = "none"
    /\ storage_map = NoSnapshot
    /\ storage_map_guard = {}
    /\ global_lock = {}
    /\ global_lock_param = None
    /\ method_lock_sync = {}
    /\ ip = [t \in Threads |-> 1]
    /\ pc = [t \in Threads |-> "done"]
    /\ guard = [t \in Threads |-> FALSE]
    /\ wait = [t \in Threads |-> FALSE]
    /\ snapshot = [t \in Threads |-> NoSnapshot]
    /\ object = [t \in Threads |-> {}]
    /\ atomicity = [t \in Threads |-> "none"]

InstanceInit ==
    /\ instance_pc = [i \in Instances |-> "closed"]
    /\ instance_lock = {}
    /\ lock_try_count = [i \in Instances |-> 0]
    /\ lock_attempts = [i \in Instances |-> 0]
    /\ lock_slept = [i \in Instances |-> 0]
    /\ flush_failed = {}

\* storage.rs:113-114, 128-156  open_with_config enters init: the directory
\* and the lock file are created, the retry counter is set
OpenInit(i) ==
    /\ instance_pc[i] = "closed"
    /\ instance_pc' = [instance_pc EXCEPT ![i] = "init"]
    /\ lock_try_count' = [lock_try_count EXCEPT ![i] = LockTryCount]
    /\ lock_attempts' = [lock_attempts EXCEPT ![i] = 0]
    /\ lock_slept' = [lock_slept EXCEPT ![i] = 0]
    /\ flush_failed' = flush_failed \ {i}
    /\ UNCHANGED <<poolVars, lockVars, storeVars, callerVars, packetVars, instance_lock>>

\* try_lock_exclusive with no wait for the other holder to release
TryLockAcquiredNoCheck(i) ==
    /\ instance_pc[i] = "init"
    /\ instance_lock' = instance_lock \cup {i}
    /\ instance_pc' = [instance_pc EXCEPT ![i] = "load"]
    /\ lock_try_count' = [lock_try_count EXCEPT ![i] = 0]
    /\ lock_attempts' = [lock_attempts EXCEPT ![i] = 0]
    /\ lock_slept' = [lock_slept EXCEPT ![i] = 0]
    /\ UNCHANGED <<poolVars, lockVars, storeVars, callerVars, packetVars, flush_failed>>

\* storage.rs:158, 172-180  try_lock_exclusive succeeds: init returns the engine
TryLockAcquired(i) ==
    /\ instance_pc[i] = "init"
    /\ FlockFree(instance_lock)
    /\ instance_lock' = instance_lock \cup {i}
    /\ instance_pc' = [instance_pc EXCEPT ![i] = "load"]
    /\ lock_try_count' = [lock_try_count EXCEPT ![i] = 0]
    /\ lock_attempts' = [lock_attempts EXCEPT ![i] = 0]
    /\ lock_slept' = [lock_slept EXCEPT ![i] = 0]
    /\ UNCHANGED <<poolVars, lockVars, storeVars, callerVars, packetVars, flush_failed>>

\* storage.rs:158, 168-169  the lock is contested: sleep and count down
TryLockRetry(i) ==
    /\ instance_pc[i] = "init"
    /\ ~FlockFree(instance_lock)
    /\ lock_try_count[i] # 0
    /\ lock_try_count' = [lock_try_count EXCEPT ![i] = @ - 1]
    /\ lock_attempts' = [lock_attempts EXCEPT ![i] = @ + 1]
    /\ lock_slept' = [lock_slept EXCEPT ![i] = @ + lock_try_duration]
    /\ UNCHANGED <<poolVars, lockVars, storeVars, callerVars, packetVars,
                   instance_pc, instance_lock, flush_failed>>

\* an init that gives up one try earlier
TryLockPanicEarly(i) ==
    /\ instance_pc[i] = "init"
    /\ ~FlockFree(instance_lock)
    /\ lock_try_count[i] = 1
    /\ instance_pc' = [instance_pc EXCEPT ![i] = "panicked"]
    /\ lock_attempts' = [lock_attempts EXCEPT ![i] = @ + 1]
    /\ UNCHANGED <<poolVars, lockVars, storeVars, callerVars, packetVars,
                   instance_lock, lock_try_count, lock_slept, flush_failed>>

\* storage.rs:158-167  the lock is contested and the counter is used up: panic
TryLockPanic(i) ==
    /\ instance_pc[i] = "init"
    /\ ~FlockFree(instance_lock)
    /\ lock_try_count[i] = 0
    /\ instance_pc' = [instance_pc EXCEPT ![i] = "panicked"]
    /\ lock_attempts' = [lock_attempts EXCEPT ![i] = @ + 1]
    /\ UNCHANGED <<poolVars, lockVars, storeVars, callerVars, packetVars,
                   instance_lock, lock_try_count, lock_slept, flush_failed>>

\* storage.rs:115-120  load() reads the directory; the engine is returned
OpenLoad(i) ==
    /\ instance_pc[i] = "load"
    /\ instance_pc' = [instance_pc EXCEPT ![i] = "open"]
    /\ UNCHANGED <<poolVars, lockVars, storeVars, callerVars, packetVars,
                   instance_lock, lock_try_count, lock_attempts, lock_slept,
                   flush_failed>>

\* storage.rs:115-119  load() returns Err: storage.unlock() releases the
\* instance lock and panic! starts to unwind, with the engine still alive
OpenLoadFailed(i) ==
    /\ instance_pc[i] = "load"
    /\ instance_lock' = instance_lock \ {i}
    /\ instance_pc' = [instance_pc EXCEPT ![i] = "unwinding"]
    /\ UNCHANGED <<poolVars, lockVars, storeVars, callerVars, packetVars,
                   lock_try_count, lock_attempts, lock_slept,
                   flush_failed>>

\* storage.rs:98-102, 340-343  the unwinding drops the engine: close() flushes
UnwindFlush(i) ==
    /\ instance_pc[i] = "unwinding"
    /\ instance_pc' = [instance_pc EXCEPT ![i] = "unwinding_unlock"]
    /\ \E err \in BOOLEAN :
          flush_failed' = IF err THEN flush_failed \cup {i} ELSE flush_failed \ {i}
    /\ UNCHANGED <<poolVars, lockVars, storeVars, callerVars, packetVars,
                   instance_lock, lock_try_count, lock_attempts,
                   lock_slept>>

\* storage.rs:344, 333-337  close() unlocks the engine's own lock file once
\* more, which leaves the lock of another engine alone
UnwindUnlock(i) ==
    /\ instance_pc[i] = "unwinding_unlock"
    /\ instance_lock' = instance_lock \ {i}
    /\ instance_pc' = [instance_pc EXCEPT ![i] = "panicked"]
    /\ UNCHANGED <<poolVars, lockVars, storeVars, callerVars, packetVars,
                   lock_try_count, lock_attempts, lock_slept,
                   flush_failed>>

\* storage.rs:98-102, 340-343  the engine is dropped: close() flushes; an Err
\* of flush is logged and close goes on
CloseFlush(i) ==
    /\ instance_pc[i] = "open"
    /\ instance_pc' = [instance_pc EXCEPT ![i] = "unlock"]
    /\ \E err \in BOOLEAN :
          flush_failed' = IF err THEN flush_failed \cup {i} ELSE flush_failed \ {i}
    /\ UNCHANGED <<poolVars, lockVars, storeVars, callerVars, packetVars,
                   instance_lock, lock_try_count, lock_attempts,
                   lock_slept>>

\* a close that keeps the instance lock
CloseNoUnlock(i) ==
    /\ instance_pc[i] = "unlock"
    /\ instance_pc' = [instance_pc EXCEPT ![i] = "closed"]
    /\ UNCHANGED <<poolVars, lockVars, storeVars, callerVars, packetVars, instance_lock,
                   lock_try_count, lock_attempts, lock_slept,
                   flush_failed>>

\* storage.rs:344, 333-337  close() releases the instance lock
CloseUnlock(i) ==
    /\ instance_pc[i] = "unlock"
    /\ instance_lock' = instance_lock \ {i}
    /\ instance_pc' = [instance_pc EXCEPT ![i] = "closed"]
    /\ UNCHANGED <<poolVars, lockVars, storeVars, callerVars, packetVars,
                   lock_try_count, lock_attempts, lock_slept,
                   flush_failed>>

InstanceNext ==
    \E i \in Instances :
        \/ OpenInit(i)
        \/ TryLockAcquired(i)
        \/ TryLockRetry(i)
        \/ TryLockPanic(i)
        \/ OpenLoad(i)
        \/ OpenLoadFailed(i)
        \/ UnwindFlush(i)
        \/ UnwindUnlock(i)
        \/ CloseFlush(i)
        \/ CloseUnlock(i)


\* the engine took the instance lock and loads, is open, or is being closed
UsesDirectory(i) == instance_pc[i] \in {"load", "open", "unlock"}

(***************************************************************************)
(* Properties of the instance lock                                         *)
(***************************************************************************)

InstanceLockHandOver ==
    /\ \A i \in Instances :
          instance_pc[i] \in {"closed", "panicked"} => i \notin instance_lock
    /\ \A i \in Instances :
          ( /\ instance_pc[i] = "init"
            /\ \A j \in Instances \ {i} : ~UsesDirectory(j) )
          => /\ ENABLED TryLockAcquired(i)
             /\ ~ ENABLED TryLockRetry(i)
             /\ ~ ENABLED TryLockPanic(i)

\* an engine was dropped with a failed flush and another engine is open
InstanceLockHandOverWitness ==
    \E i \in Instances, j \in Instances :
        /\ instance_pc[i] = "closed"
        /\ i \in flush_failed
        /\ instance_pc[j] = "open"
        /\ instance_lock = {j}

\* engine i runs flush: the manifest and blobs are written, orphans deleted
Flushes(i) == CloseFlush(i) \/ UnwindFlush(i)

\* C29  Every flush of an engine, the one that follows a failed load in
\* open_with_config included, runs while that engine holds the instance lock.
DiskWritesUnderInstanceLock ==
    [][\A i \in Instances : Flushes(i) => i \in instance_lock]_vars

\* the tries of a running init are lock_try_duration = 50 ms apart, and an
\* engine that open returned holds the instance lock
LockTriesSpaced ==
    /\ lock_try_duration = 50
    /\ \A i \in Instances :
          /\ instance_pc[i] = "init" =>
                /\ lock_slept[i] = lock_try_duration * lock_attempts[i]
                /\ lock_attempts[i] = LockTryCount - lock_try_count[i]
          /\ instance_pc[i] = "open" => i \in instance_lock

\* C36 as stated: while the instance lock stays contested, init makes exactly
\* 100 tries, 50 ms apart, and then aborts; it never returns an engine that
\* does not hold the lock.
LockRetryBoundAsStated ==
    /\ []LockTriesSpaced
    /\ [][\A i \in Instances : TryLockPanic(i) => lock_attempts'[i] = LockTryCount]_vars

\* C36  While the instance lock stays contested, init makes 101 tries, the
\* first one and 100 more, each 50 ms after the one before, 5000 ms in all,
\* and aborts at the failure of the last; no init makes more tries or sleeps
\* longer, and it never returns an engine that does not hold the lock.
LockRetryBound ==
    /\ []LockTriesSpaced
    /\ [](\A i \in Instances :
             /\ lock_attempts[i] <= LockTryCount + 1
             /\ lock_slept[i] <= INSTANCE_LOCK_TIMEOUT_MILLISECONDS)
    /\ [][\A i \in Instances :
             TryLockPanic(i) => /\ lock_attempts'[i] = LockTryCount + 1
                                /\ lock_slept'[i] = INSTANCE_LOCK_TIMEOUT_MILLISECONDS]_vars

\* an init gave up after its 101st try while the other engine is open
LockRetryBoundWitness ==
    \E i \in Instances, j \in Instances :
        /\ instance_pc[i] = "panicked"
        /\ lock_attempts[i] = LockTryCount + 1
        /\ lock_slept[i] = INSTANCE_LOCK_TIMEOUT_MILLISECONDS
        /\ instance_pc[j] = "open"

(***************************************************************************)
(* The data directory: items, codec, files                                 *)
(***************************************************************************)
StoreKeys == {"k1", "k2"}

\* item ids and blob file names, as strings of ASCII codes: "a", "A", "b"
Ids == { <<97>>, <<65>>, <<98>> }

FileNames == Ids

Versions == 0..MaxVersion

StoreObjects == 1..MaxObject

\* an object whose bincode::Encode returns an error
Unencodable == 0

\* the objects a caller can pass to update_inner_object
CallerObjects == StoreObjects \cup {Unencodable}

\* str::to_ascii_lowercase
to_ascii_lowercase(str) ==
    [i \in DOMAIN str |-> IF str[i] \in 65..90 THEN str[i] + 32 ELSE str[i]]

\* storage_codec.rs:9-29  bincode of a small number is the one byte of it
encode_to_binary(obj) == IF obj = Unencodable THEN Absent ELSE Some(<< obj >>)

\* storage_codec.rs:32-55  Option<T>
decode_from_binary(encoded) ==
    IF Len(encoded) >= 1 THEN Some(encoded[1]) ELSE Absent

\* storage_item.rs:54-70, 73-88  the fields of StorageItem the engine reads,
\* and the descriptive fields with the values StorageItem::new gives them
StorageItem(id, key, version, data) ==
    [id |-> id, key |-> key, version |-> version, data |-> data,
     item_type |-> "Custom", description |-> Absent, tags |-> Absent,
     metafields |-> Absent]

\* the items a caller can pass to insert / update: under "k1" an item whose
\* id is "a" or "A" at any version, under "k2" an item of id "b"
StorageItems ==
    { StorageItem(id, "k1", version, encode_to_binary(obj)[1]) :
        id \in { <<97>>, <<65>> }, version \in Versions, obj \in StoreObjects }
    \cup
    { StorageItem(<<98>>, "k2", 0, encode_to_binary(obj)[1]) : obj \in StoreObjects }

\* storage_item.rs:117-119
get_object(item) == decode_from_binary(item.data)

\* an update_object that counts the update in the version of the item
update_object_versioned(item, obj) ==
    IF encode_to_binary(obj) # Absent
    THEN [item EXCEPT !.data = encode_to_binary(obj)[1], !.version = @ + 1]
    ELSE item

\* storage_item.rs:109-115
update_object(item, obj) ==
    IF encode_to_binary(obj) # Absent
    THEN [item EXCEPT !.data = encode_to_binary(obj)[1]]
    ELSE item

NoFile == Absent

EmptyMap == [k \in StoreKeys |-> Absent]

EmptyDir == [f \in FileNames |-> NoFile]

\* StroragePacketType::StrorageInfo, StroragePacketType::StrorageItem
PacketStorageInfo == 1

PacketStorageItem == 2

\* StrorageCodecType::Bincode, the default codec
CodecBincode == 1

\* storage_codec.rs:58-100  the file written: the packet of the encoded object
encode_to_file(obj, packet_type) ==
    Some([packet_type |-> packet_type, codec_type |-> CodecBincode, data |-> obj])

\* storage_codec.rs:103-130  Ok(obj) is <<obj>>, Err is <<>>
decode_from_file(file) ==
    IF file = NoFile THEN Absent
    ELSE IF file[1].codec_type = CodecBincode THEN Some(file[1].data)
    ELSE Absent

\* storage.rs:300-305
load_storage_info(info_file) == decode_from_file(info_file)

\* storage.rs:326-330
load_item(dir, item_id) == decode_from_file(dir[item_id])

\* all orders in which a HashMap can iterate over the keys in S
Orders(S) ==
    { order \in [1..Cardinality(S) -> S] :
        \A i, j \in 1..Cardinality(S) : i # j => order[i] # order[j] }

PresentKeys(map) == { k \in StoreKeys : map[k] # Absent }

(***************************************************************************)
(* Storage::flush                                                          *)
(***************************************************************************)
\* storage.rs:226-231
InfoToPersist(map) ==
    [k \in StoreKeys |->
        IF map[k] = Absent THEN Absent
        ELSE Some(<< map[k][1].id, map[k][1].version >>)]

\* storage.rs:247-250
ItemIds(info) == { to_ascii_lowercase(info[k][1][1]) : k \in PresentKeys(info) }

\* an orphan removal that takes every blob file for an orphan
ToRemoveAll(dir, info) == { f \in FileNames : dir[f] # NoFile }

\* storage.rs:251-263
ToRemove(dir, info) ==
    { f \in FileNames : dir[f] # NoFile /\ to_ascii_lowercase(f) \notin ItemIds(info) }

\* storage.rs:265-270
RemoveFiles(dir, files) == [f \in FileNames |-> IF f \in files THEN NoFile ELSE dir[f]]

\* a persist decision that compares the versions and not the ids
NeedsPersistVersionOnly(item, item_id, item_version, persisted_info) ==
    IF persisted_info # Absent
    THEN IF persisted_info[1][item.key] # Absent
         THEN item_version > persisted_info[1][item.key][1][2]
         ELSE TRUE
    ELSE TRUE

\* a persist decision that writes every blob at every flush
NeedsPersistAlways(item, item_id, item_version, persisted_info) == TRUE

\* storage.rs:275-286
NeedsPersist(item, item_id, item_version, persisted_info) ==
    IF persisted_info # Absent
    THEN IF persisted_info[1][item.key] # Absent
         THEN \/ item_id # persisted_info[1][item.key][1][1]
              \/ item_version > persisted_info[1][item.key][1][2]
         ELSE TRUE
    ELSE TRUE

\* storage.rs:320-324
persist_item(dir, item) ==
    [dir EXCEPT ![item.id] = encode_to_file(item, PacketStorageItem)]

\* storage.rs:272-295  the loop over info_to_persist, in the order given
RECURSIVE PersistItems(_, _, _, _, _)
PersistItems(order, info, map, persisted_info, dir) ==
    IF order = <<>> THEN dir
    ELSE LET item_key == Head(order)
             item == map[item_key][1]
             item_id == info[item_key][1][1]
             item_version == info[item_key][1][2]
             written == IF NeedsPersist(item, item_id, item_version, persisted_info)
                        THEN persist_item(dir, item)
                        ELSE dir
         IN  PersistItems(Tail(order), info, map, persisted_info, written)

\* a flush that leaves the old blob files in place
FlushDataNoPurge(order, map, info_file, dir) ==
    PersistItems(order, InfoToPersist(map), map, load_storage_info(info_file), dir)

\* storage.rs:214-298  the files of D/storage/ after flush
FlushData(order, map, info_file, dir) ==
    LET info == InfoToPersist(map)
    IN  PersistItems(order, info, map, load_storage_info(info_file),
                     RemoveFiles(dir, ToRemove(dir, info)))

\* storage.rs:233-237, 307-312  the file D/storage-info after flush
FlushInfo(map) == encode_to_file(InfoToPersist(map), PacketStorageInfo)

(***************************************************************************)
(* Storage::load                                                           *)
(***************************************************************************)
\* storage.rs:192-203  the loop over storage_info.values(), in the order given
RECURSIVE LoadItems(_, _, _, _)
LoadItems(order, info, dir, map) ==
    IF order = <<>> THEN [ok |-> TRUE, map |-> map]
    ELSE LET loaded == load_item(dir, info[Head(order)][1][1])
         IN  IF loaded = Absent
             THEN [ok |-> FALSE, map |-> map]
             ELSE LoadItems(Tail(order), info, dir,
                            [map EXCEPT ![loaded[1].key] = Some(loaded[1])])

\* a load that, without a manifest, takes the items of all blob files
LoadAllBlobs(order, info_file, dir) ==
    IF load_storage_info(info_file) = Absent
    THEN [ok |-> TRUE,
          map |-> [k \in StoreKeys |->
                     IF \E f \in FileNames : dir[f] # NoFile /\ load_item(dir, f)[1].key = k
                     THEN load_item(dir, CHOOSE f \in FileNames :
                                           dir[f] # NoFile /\ load_item(dir, f)[1].key = k)
                     ELSE Absent]]
    ELSE LoadItems(order, load_storage_info(info_file)[1], dir, EmptyMap)

\* storage.rs:184-211  the result and the map after load
Load(order, info_file, dir) ==
    LET storage_info_loaded == load_storage_info(info_file)
    IN  IF storage_info_loaded = Absent
        THEN [ok |-> TRUE, map |-> EmptyMap]
        ELSE LoadItems(order, storage_info_loaded[1], dir, EmptyMap)

\* the iteration orders load can take over the manifest in info_file
LoadOrders(info_file) ==
    IF load_storage_info(info_file) = Absent THEN { <<>> }
    ELSE Orders(PresentKeys(load_storage_info(info_file)[1]))

(***************************************************************************)
(* History of the caller                                                   *)
(***************************************************************************)
\* the objects a caller expects after the engine is dropped: those of the
\* keys whose last write was update_inner_object
ExpectedAfterDrop ==
    [k \in StoreKeys |->
        IF k \in inner_updated /\ items[k] # Absent THEN get_object(items[k][1])
        ELSE Absent]

\* the caller has read nothing yet
NothingReturned == [op |-> "none", key |-> "", value |-> Absent, modified |-> FALSE]

CallerInit == returned = NothingReturned

\* no outcome of a parse yet
NotParsed == [op |-> "none", kind |-> "none"]

\* no file is handed to the parser
\* buf was not written by build_storage_packet
NoPacket == [kind |-> "none"]

PacketIdle ==
    /\ buf = <<>>
    /\ parsed = NotParsed
    /\ built = NoPacket

\* no ThreadPool was created
PoolIdle ==
    /\ pool_pc = "none"
    /\ sender = FALSE
    /\ channel = <<>>
    /\ receiver = 0
    /\ worker_pc = <<>>
    /\ worker_job = <<>>
    /\ runs = <<>>
    /\ sent = 0
    /\ join_next = 0

StoreInit ==
    /\ engine = "closed"
    /\ items = EmptyMap
    /\ storage_info = NoFile
    /\ storage_data = EmptyDir
    /\ last = "none"
    /\ saved = EmptyMap
    /\ to_remove = {}
    /\ reflushed = FALSE
    /\ inner_updated = {}
    /\ expected = EmptyMap

\* an open that returns the engine with the items loaded before the failure
StorageOpenPartial ==
    /\ engine = "closed"
    /\ \E order \in LoadOrders(storage_info) :
          items' = Load(order, storage_info, storage_data).map
    /\ engine' = "open"
    /\ last' = IF last = "crash" THEN "crash_open" ELSE "open"
    /\ saved' = EmptyMap
    /\ to_remove' = {}
    /\ reflushed' = FALSE
    /\ inner_updated' = {}
    /\ UNCHANGED <<poolVars, lockVars, instanceVars, callerVars, packetVars,
                   storage_info, storage_data, expected>>

(***************************************************************************)
(* Operations of the engine                                                *)
(***************************************************************************)
\* storage.rs:107-121  open: init, then load; a failed load panics and the
\* unwinding drops the engine, which runs close -> flush
StorageOpen ==
    /\ engine = "closed"
    /\ \E order \in LoadOrders(storage_info) :
         LET result == Load(order, storage_info, storage_data)
         IN  IF result.ok
             THEN /\ engine' = "open"
                  /\ items' = result.map
                  /\ UNCHANGED <<storage_info, storage_data>>
             ELSE /\ engine' = "closed"
                  /\ items' = EmptyMap
                  /\ storage_info' = FlushInfo(result.map)
                  /\ \E flush_order \in Orders(PresentKeys(result.map)) :
                        storage_data' = FlushData(flush_order, result.map,
                                                  storage_info, storage_data)
    /\ last' = IF last = "crash" THEN "crash_open" ELSE "open"
    /\ saved' = EmptyMap
    /\ to_remove' = {}
    /\ reflushed' = FALSE
    /\ inner_updated' = {}
    /\ UNCHANGED <<poolVars, lockVars, instanceVars, callerVars, packetVars, expected>>

\* an insert that stores the item under another key than its own
InsertUnderOtherKey(storage_item) ==
    /\ engine = "open"
    /\ items' = [items EXCEPT ![CHOOSE k \in StoreKeys : k # storage_item.key] =
                                  Some(storage_item)]
    /\ last' = "none"
    /\ saved' = EmptyMap
    /\ to_remove' = {}
    /\ reflushed' = FALSE
    /\ inner_updated' = inner_updated \ {storage_item.key}
    /\ expected' = EmptyMap
    /\ UNCHANGED <<poolVars, lockVars, instanceVars, callerVars, packetVars,
                   engine, storage_info, storage_data>>

\* an insert that keeps the item of a key the map already holds
InsertIfAbsent(storage_item) ==
    /\ engine = "open"
    /\ items' = IF items[storage_item.key] = Absent
                THEN [items EXCEPT ![storage_item.key] = Some(storage_item)]
                ELSE items
    /\ last' = "none"
    /\ saved' = EmptyMap
    /\ to_remove' = {}
    /\ reflushed' = FALSE
    /\ inner_updated' = inner_updated \ {storage_item.key}
    /\ expected' = EmptyMap
    /\ UNCHANGED <<poolVars, lockVars, instanceVars, callerVars, packetVars,
                   engine, storage_info, storage_data>>

\* storage.rs:393-401  insert; update calls insert
Insert(storage_item) ==
    /\ engine = "open"
    /\ items' = [items EXCEPT ![storage_item.key] = Some(storage_item)]
    /\ last' = "none"
    /\ saved' = EmptyMap
    /\ to_remove' = {}
    /\ reflushed' = FALSE
    /\ inner_updated' = inner_updated \ {storage_item.key}
    /\ expected' = EmptyMap
    /\ UNCHANGED <<poolVars, lockVars, instanceVars, callerVars, packetVars,
                   engine, storage_info, storage_data>>

\* storage.rs:433-440  the boolean update_inner_object returns
UpdateInnerObjectResult(key, obj) == items[key] # Absent

\* storage.rs:433-440
UpdateInnerObject(key, obj) ==
    /\ engine = "open"
    /\ items' = IF items[key] # Absent
                THEN [items EXCEPT ![key] = Some(update_object(items[key][1], obj))]
                ELSE items
    /\ last' = "none"
    /\ saved' = EmptyMap
    /\ to_remove' = {}
    /\ reflushed' = FALSE
    /\ inner_updated' = IF items[key] # Absent /\ encode_to_binary(obj) # Absent
                        THEN inner_updated \cup {key}
                        ELSE inner_updated
    /\ expected' = EmptyMap
    /\ UNCHANGED <<poolVars, lockVars, instanceVars, callerVars, packetVars,
                   engine, storage_info, storage_data>>

\* a remove that empties the map
RemoveAll(key) ==
    /\ engine = "open"
    /\ items' = EmptyMap
    /\ last' = "remove"
    /\ saved' = EmptyMap
    /\ to_remove' = {}
    /\ reflushed' = FALSE
    /\ inner_updated' = inner_updated \ {key}
    /\ expected' = EmptyMap
    /\ UNCHANGED <<poolVars, lockVars, instanceVars, callerVars, packetVars,
                   engine, storage_info, storage_data>>

\* storage.rs:409-411
Remove(key) ==
    /\ engine = "open"
    /\ items' = [items EXCEPT ![key] = Absent]
    /\ last' = "remove"
    /\ saved' = EmptyMap
    /\ to_remove' = {}
    /\ reflushed' = FALSE
    /\ inner_updated' = inner_updated \ {key}
    /\ expected' = EmptyMap
    /\ UNCHANGED <<poolVars, lockVars, instanceVars, callerVars, packetVars,
                   engine, storage_info, storage_data>>

\* storage.rs:414-416
Clear ==
    /\ engine = "open"
    /\ items' = EmptyMap
    /\ last' = IF last = "flush" THEN "flush_clear" ELSE "none"
    /\ saved' = IF last = "flush" THEN saved ELSE EmptyMap
    /\ to_remove' = {}
    /\ reflushed' = FALSE
    /\ inner_updated' = {}
    /\ expected' = EmptyMap
    /\ UNCHANGED <<poolVars, lockVars, instanceVars, callerVars, packetVars,
                   engine, storage_info, storage_data>>

\* storage.rs:214-298
Flush ==
    /\ engine = "open"
    /\ storage_info' = FlushInfo(items)
    /\ \E order \in Orders(PresentKeys(items)) :
          storage_data' = FlushData(order, items, storage_info, storage_data)
    /\ last' = "flush"
    /\ saved' = items
    /\ to_remove' = ToRemove(storage_data, InfoToPersist(items))
    /\ reflushed' = (last = "flush")
    /\ expected' = EmptyMap
    /\ UNCHANGED <<poolVars, lockVars, instanceVars, callerVars, packetVars,
                   engine, items, inner_updated>>

\* storage.rs:184-211
StorageLoad ==
    /\ engine = "open"
    /\ \E order \in LoadOrders(storage_info) :
          items' = Load(order, storage_info, storage_data).map
    /\ last' = IF last = "flush_clear" THEN "flush_clear_load" ELSE "none"
    /\ saved' = IF last = "flush_clear" THEN saved ELSE EmptyMap
    /\ to_remove' = {}
    /\ reflushed' = FALSE
    /\ inner_updated' = {}
    /\ expected' = EmptyMap
    /\ UNCHANGED <<poolVars, lockVars, instanceVars, callerVars, packetVars,
                   engine, storage_info, storage_data>>

\* storage.rs:98-102, 340-345  the engine is dropped: close flushes and
\* releases the instance lock; the map is gone
StorageClose ==
    /\ engine = "open"
    /\ storage_info' = FlushInfo(items)
    /\ \E order \in Orders(PresentKeys(items)) :
          storage_data' = FlushData(order, items, storage_info, storage_data)
    /\ engine' = "closed"
    /\ items' = EmptyMap
    /\ last' = "none"
    /\ saved' = EmptyMap
    /\ to_remove' = {}
    /\ reflushed' = FALSE
    /\ inner_updated' = {}
    /\ expected' = ExpectedAfterDrop
    /\ UNCHANGED <<poolVars, lockVars, instanceVars, callerVars, packetVars>>

FileExists(f) == storage_data[f] # NoFile

\* a blob file is lost while no engine is open on the directory, so that the
\* next load_item of its id is Err
BlobLost(f) ==
    /\ engine = "closed"
    /\ FileExists(f)
    /\ storage_data' = [storage_data EXCEPT ![f] = NoFile]
    /\ last' = "none"
    /\ saved' = EmptyMap
    /\ to_remove' = {}
    /\ reflushed' = FALSE
    /\ inner_updated' = {}
    /\ expected' = EmptyMap
    /\ UNCHANGED <<poolVars, lockVars, instanceVars, callerVars, packetVars,
                   engine, items, storage_info>>

StoreNext ==
    \/ StorageOpen
    \/ \E f \in FileNames : BlobLost(f)
    \/ \E storage_item \in StorageItems : Insert(storage_item)
    \/ \E key \in StoreKeys, obj \in CallerObjects : UpdateInnerObject(key, obj)
    \/ \E key \in StoreKeys : Remove(key)
    \/ Clear
    \/ Flush
    \/ StorageLoad
    \/ StorageClose

(***************************************************************************)
(* Reads of the caller                                                     *)
(***************************************************************************)
\* storage.rs:419-421  keys()
keys == PresentKeys(items)

\* storage.rs:404-406  get(key): a clone of the item, or None
get(key) == items[key]

\* storage.rs:404-406  get: the caller receives a clone of the item
Get(key) ==
    /\ engine = "open"
    /\ returned' = [op |-> "get", key |-> key, value |-> get(key), modified |-> FALSE]
    /\ UNCHANGED <<poolVars, lockVars, instanceVars, storeVars, packetVars>>

\* storage.rs:419-421  keys: the caller receives a vector of cloned keys
Keys ==
    /\ engine = "open"
    /\ returned' = [op |-> "keys", key |-> "", value |-> keys, modified |-> FALSE]
    /\ UNCHANGED <<poolVars, lockVars, instanceVars, storeVars, packetVars>>

\* storage.rs:424-430  get_inner_object: get, then decode the data
GetInnerObject(key) ==
    /\ engine = "open"
    /\ returned' = [op |-> "get_inner_object", key |-> key,
                    value |-> IF get(key) # Absent THEN get_object(get(key)[1]) ELSE Absent,
                    modified |-> FALSE]
    /\ UNCHANGED <<poolVars, lockVars, instanceVars, storeVars, packetVars>>

\* a get that hands out the item of the map itself: a change of the item
\* received is a change of the item stored
ModifyReturnedAliased(obj) ==
    /\ returned.op = "get"
    /\ returned.value # Absent
    /\ returned' = [returned EXCEPT !.value = Some(update_object(returned.value[1], obj)),
                                    !.modified = TRUE]
    /\ items' = [items EXCEPT ![returned.key] =
                    IF @ # Absent THEN Some(update_object(@[1], obj)) ELSE @]
    /\ UNCHANGED <<poolVars, lockVars, instanceVars, packetVars, engine, storage_info, storage_data,
                   last, saved, to_remove, reflushed, inner_updated, expected>>

\* storage.rs:497-501, storage_item.rs:109-115  the caller changes the item it
\* received from get
ModifyReturned(obj) ==
    /\ returned.op = "get"
    /\ returned.value # Absent
    /\ returned' = [returned EXCEPT !.value = Some(update_object(returned.value[1], obj)),
                                    !.modified = TRUE]
    /\ UNCHANGED <<poolVars, lockVars, instanceVars, storeVars, packetVars>>

FacadeNext ==
    \/ StorageOpen
    \/ \E storage_item \in StorageItems : Insert(storage_item)
    \/ \E key \in StoreKeys, obj \in CallerObjects : UpdateInnerObject(key, obj)
    \/ \E key \in StoreKeys : Remove(key)
    \/ Clear
    \/ \E key \in StoreKeys : Get(key)
    \/ Keys
    \/ \E key \in StoreKeys : GetInnerObject(key)
    \/ \E obj \in StoreObjects : ModifyReturned(obj)

\* C16  get, keys and get_inner_object leave the map as it is, and a change
\* the caller makes to an item it received from get leaves the map as it is:
\* a later get returns the stored item until the changed item is passed to
\* update or insert.
GetReturnsSnapshot ==
    [][( \/ \E key \in StoreKeys : Get(key)
         \/ Keys
         \/ \E key \in StoreKeys : GetInnerObject(key)
         \/ \E obj \in StoreObjects : ModifyReturned(obj) )
       => /\ items' = items
          /\ \A k \in StoreKeys : get(k)' = get(k)]_vars

\* the caller holds a changed copy of an item while the map holds the item
\* as it was
GetReturnsSnapshotWitness ==
    /\ returned.op = "get"
    /\ returned.modified
    /\ get(returned.key) # Absent
    /\ get(returned.key) # returned.value

(***************************************************************************)
(* Packets: the bytes of a file                                            *)
(***************************************************************************)
STORAGE_PACKET_HEADER_SIZE == 11

STORAGE_PACKET_VERSION == 1

\* the number of values of a u8
ByteBase == 256

PacketStorageItemObject == 3

CodecCapnProto == 5

\* storage_packet.rs:15-24  the bytes From<u8> for StroragePacketType accepts
PacketTypeTags == {PacketStorageInfo, PacketStorageItem, PacketStorageItemObject}

\* storage_packet.rs:46-57  the bytes From<u8> for StrorageCodecType accepts
CodecTypeTags == CodecBincode..CodecCapnProto

\* u64::to_be_bytes, on the low `width` bytes
RECURSIVE to_be_bytes(_, _)
to_be_bytes(n, width) ==
    IF width = 0 THEN <<>>
    ELSE Append(to_be_bytes(n \div ByteBase, width - 1), n % ByteBase)

\* u64::from_be_bytes
RECURSIVE from_be_bytes(_)
from_be_bytes(bytes) ==
    IF bytes = <<>> THEN 0
    ELSE from_be_bytes(SubSeq(bytes, 1, Len(bytes) - 1)) * ByteBase + bytes[Len(bytes)]

\* storage_packet.rs:75-82  StroragePacketHeader::to_vec
HeaderBytes(packet_length, packet_type, packet_version, codec_type) ==
    to_be_bytes(packet_length, 8) \o << packet_type, packet_version, codec_type >>

\* the first n bytes of b, or b when it is shorter
Take(b, n) == SubSeq(b, 1, IF n < Len(b) THEN n ELSE Len(b))

\* payloads: the encodings of up to MaxPayloadLen small objects
Payloads == UNION { [1..n -> StoreObjects] : n \in 0..MaxPayloadLen }

\* the lengths a header declares: around the true lengths, and one whose
\* second-lowest byte is set
DeclaredLengths ==
    ((STORAGE_PACKET_HEADER_SIZE - 1)..(STORAGE_PACKET_HEADER_SIZE + MaxPayloadLen))
    \cup {ByteBase + STORAGE_PACKET_HEADER_SIZE + 1}

\* the contents of a file: a header with any declared length and any type and
\* codec byte, a payload, cut at any length
FileContents ==
    { Take(HeaderBytes(declared, packet_type, STORAGE_PACKET_VERSION, codec_type)
                \o payload, n) :
        declared \in DeclaredLengths, packet_type \in 0..MaxTag, codec_type \in 0..MaxTag,
        payload \in Payloads, n \in 0..(STORAGE_PACKET_HEADER_SIZE + MaxPayloadLen) }

\* parse_packet_header without the comparison of the declared length
parse_packet_header_any_length(b) ==
    IF Len(b) < STORAGE_PACKET_HEADER_SIZE THEN [kind |-> "err"]
    ELSE IF b[9] \notin PacketTypeTags \/ b[11] \notin CodecTypeTags
         THEN [kind |-> "panic"]
         ELSE [kind |-> "ok",
               header |-> [packet_length |-> from_be_bytes(SubSeq(b, 1, 8)),
                           packet_type |-> b[9],
                           packet_version |-> b[10],
                           codec_type |-> b[11]]]

\* storage_packet.rs:122-150  Err, a panic in From<u8>, or Ok(header)
parse_packet_header(b) ==
    IF Len(b) < STORAGE_PACKET_HEADER_SIZE THEN [kind |-> "err"]
    ELSE IF Len(b) # from_be_bytes(SubSeq(b, 1, 8)) THEN [kind |-> "err"]
    ELSE IF b[9] \notin PacketTypeTags \/ b[11] \notin CodecTypeTags
         THEN [kind |-> "panic"]
         ELSE [kind |-> "ok",
               header |-> [packet_length |-> from_be_bytes(SubSeq(b, 1, 8)),
                           packet_type |-> b[9],
                           packet_version |-> b[10],
                           codec_type |-> b[11]]]

\* storage_packet.rs:96-105
parse_packet(b) ==
    LET header == parse_packet_header(b)
    IN  IF header.kind = "ok"
        THEN [kind |-> "ok", header |-> header.header,
              data |-> SubSeq(b, STORAGE_PACKET_HEADER_SIZE + 1, Len(b))]
        ELSE header

\* a decode_from_binary that reads every codec as bincode
decode_with_any_codec(encoded, codec_type) == decode_from_binary(encoded)

\* storage_codec.rs:32-55  decode_from_binary with the codec of the header
decode_with_codec(encoded, codec_type) ==
    IF codec_type = CodecBincode THEN decode_from_binary(encoded) ELSE Absent

\* storage_codec.rs:103-130  decode_from_file on the bytes read from the file
decode_from_bytes(b) ==
    LET packet == parse_packet(b)
    IN  IF packet.kind = "ok"
        THEN IF decode_with_codec(packet.data, packet.header.codec_type) # Absent
             THEN [kind |-> "ok",
                   obj |-> decode_with_codec(packet.data, packet.header.codec_type)[1]]
             ELSE [kind |-> "err"]
        ELSE packet

\* storage.rs:192-203, 326-330  load of a manifest whose one blob file holds b:
\* an Err of load_item is returned, a panic unwinds through load
load_bytes(b) ==
    LET loaded == decode_from_bytes(b)
    IN  IF loaded.kind = "ok" THEN [kind |-> "ok"] ELSE [kind |-> loaded.kind]

PacketInit ==
    /\ buf \in FileContents
    /\ parsed = NotParsed
    /\ built = NoPacket

\* a header that declares the length of the payload alone
build_packet_header_payload_length(payload, packet_type, codec_type) ==
    [packet_length |-> Len(payload),
     packet_type |-> packet_type,
     packet_version |-> STORAGE_PACKET_VERSION,
     codec_type |-> codec_type]

\* storage_packet.rs:108-119
build_packet_header(payload, packet_type, codec_type) ==
    [packet_length |-> Len(payload) + STORAGE_PACKET_HEADER_SIZE,
     packet_type |-> packet_type,
     packet_version |-> STORAGE_PACKET_VERSION,
     codec_type |-> codec_type]

\* storage_packet.rs:86-93
build_storage_packet(payload, packet_type, codec_type) ==
    [header |-> build_packet_header(payload, packet_type, codec_type), data |-> payload]

\* storage_packet.rs:75-82, storage_codec.rs:70-84  header.to_vec() and then
\* the data, as written to a file
PacketBytes(packet) ==
    HeaderBytes(packet.header.packet_length, packet.header.packet_type,
                packet.header.packet_version, packet.header.codec_type)
    \o packet.data

\* storage_packet.rs:86-93  a packet is built and its bytes fill the empty file
BuildPacket(payload, packet_type, codec_type) ==
    /\ buf = <<>>
    /\ parsed = NotParsed
    /\ built = NoPacket
    /\ buf' = PacketBytes(build_storage_packet(payload, packet_type, codec_type))
    /\ built' = [kind |-> "built", payload |-> payload, packet_type |-> packet_type,
                 codec_type |-> codec_type]
    /\ UNCHANGED <<poolVars, lockVars, instanceVars, storeVars, callerVars, parsed>>

\* storage_packet.rs:96-105  the file is parsed
ParsePacket ==
    /\ parsed = NotParsed
    /\ parsed' = [op |-> "parse_packet", result |-> parse_packet(buf),
                  kind |-> parse_packet(buf).kind]
    /\ UNCHANGED <<poolVars, lockVars, instanceVars, storeVars, callerVars, buf, built>>

\* storage.rs:184-211  the file is loaded as the blob of a manifest entry
LoadItem ==
    /\ parsed = NotParsed
    /\ parsed' = [op |-> "load", result |-> load_bytes(buf), kind |-> load_bytes(buf).kind]
    /\ UNCHANGED <<poolVars, lockVars, instanceVars, storeVars, callerVars, buf, built>>

PacketNext ==
    \/ \E payload \in Payloads, packet_type \in PacketTypeTags, codec_type \in CodecTypeTags :
          BuildPacket(payload, packet_type, codec_type)
    \/ ParsePacket
    \/ LoadItem

\* the length the first 8 bytes of buf declare
DeclaredLength == from_be_bytes(Take(buf, 8))

\* C19  parse_packet returns an error, and neither header nor payload, for
\* every buffer shorter than the 11 bytes of a header and for every buffer
\* whose declared length is not its length.
FrameLengthChecked ==
    ( /\ parsed.op = "parse_packet"
      /\ \/ Len(buf) < STORAGE_PACKET_HEADER_SIZE
         \/ DeclaredLength # Len(buf) )
    => parsed.result = [kind |-> "err"]

\* a buffer of header size or more whose declared length is wrong was refused
FrameLengthCheckedWitness ==
    /\ parsed.op = "parse_packet"
    /\ Len(buf) >= STORAGE_PACKET_HEADER_SIZE
    /\ DeclaredLength # Len(buf)
    /\ parsed.kind = "err"

\* C21  The bytes header.to_vec() ++ payload of a packet built by
\* build_storage_packet parse back to the payload, the packet type and the
\* codec given, the packet version 1 and the length 11 + length(payload).
FrameRoundTrip ==
    (parsed.op = "parse_packet" /\ built # NoPacket) =>
        /\ parsed.result.kind = "ok"
        /\ parsed.result.data = built.payload
        /\ parsed.result.header =
               [packet_length |-> STORAGE_PACKET_HEADER_SIZE + Len(built.payload),
                packet_type |-> built.packet_type,
                packet_version |-> STORAGE_PACKET_VERSION,
                codec_type |-> built.codec_type]

\* a built packet with the longest payload was parsed
FrameRoundTripWitness ==
    /\ parsed.op = "parse_packet"
    /\ built # NoPacket
    /\ Len(built.payload) = MaxPayloadLen
    /\ parsed.kind = "ok"

\* C20  A blob file with a correct declared length and an unknown packet type
\* or codec byte makes load return Err: the failure is a result.
UnknownTagIsLoadError ==
    ( /\ parsed.op = "load"
      /\ Len(buf) >= STORAGE_PACKET_HEADER_SIZE
      /\ DeclaredLength = Len(buf)
      /\ \/ buf[9] \notin PacketTypeTags
         \/ buf[11] \notin CodecTypeTags )
    => parsed.kind = "err"

HistoryReset(event) ==
    /\ last' = event
    /\ saved' = EmptyMap
    /\ to_remove' = {}
    /\ reflushed' = FALSE
    /\ inner_updated' = {}
    /\ expected' = EmptyMap

\* a blob file is lost while the engine is open: the next load_item of its
\* id is Err
BlobLostOpen(f) ==
    /\ engine = "open"
    /\ FileExists(f)
    /\ storage_data' = [storage_data EXCEPT ![f] = NoFile]
    /\ HistoryReset("none")
    /\ UNCHANGED <<poolVars, lockVars, instanceVars, callerVars, packetVars,
                   engine, items, storage_info>>

\* storage.rs:214-298  the process stops inside flush after the manifest is
\* written: before the orphans are removed, or after that and after the
\* blobs of the first n keys of the loop are written, one blob at least not
FlushCrash ==
    /\ engine = "open"
    /\ PresentKeys(items) # {}
    /\ storage_info' = FlushInfo(items)
    /\ \E purged \in BOOLEAN, order \in Orders(PresentKeys(items)) :
          \E n \in 0..(Len(order) - 1) :
              storage_data' =
                  IF purged
                  THEN FlushData(SubSeq(order, 1, n), items, storage_info, storage_data)
                  ELSE storage_data
    /\ engine' = "closed"
    /\ items' = EmptyMap
    /\ HistoryReset("crash")
    /\ UNCHANGED <<poolVars, lockVars, instanceVars, callerVars, packetVars>>

\* how a call of encode_to_file ends: Ok, Err of File::create, Err of write_all
WriteOutcomes == {"ok", "create", "write"}

\* storage_codec.rs:64, 69-84  a file that File::create emptied and write_all
\* did not complete: parse_packet is Err for it, whatever was written
TruncatedFile == Some([packet_type |-> 0, codec_type |-> 0, data |-> <<>>])

\* storage_codec.rs:58-100  the file after encode_to_file returned Err: as it
\* was when File::create failed, truncated when write_all failed
FailedWrite(file, outcome) == IF outcome = "create" THEN file ELSE TruncatedFile

\* no key: no persist_item of the flush fails
NoKey == "none"

\* storage.rs:272-295  the loop over info_to_persist when persist_item is Err
\* for the item under the key failing: the files after the loop, and whether
\* the loop came to its end
RECURSIVE PersistItemsFault(_, _, _, _, _, _, _)
PersistItemsFault(order, info, map, persisted_info, dir, failing, outcome) ==
    IF order = <<>> THEN [dir |-> dir, ok |-> TRUE]
    ELSE LET item_key == Head(order)
             item == map[item_key][1]
             item_id == info[item_key][1][1]
             item_version == info[item_key][1][2]
         IN  IF NeedsPersist(item, item_id, item_version, persisted_info)
             THEN IF item_key = failing
                  THEN [dir |-> [dir EXCEPT ![item.id] = FailedWrite(@, outcome)],
                        ok |-> FALSE]
                  ELSE PersistItemsFault(Tail(order), info, map, persisted_info,
                                         persist_item(dir, item), failing, outcome)
             ELSE PersistItemsFault(Tail(order), info, map, persisted_info,
                                    dir, failing, outcome)

\* the keys whose blob a flush of the map writes
KeysToPersist(map, info_file) ==
    { k \in PresentKeys(map) :
        NeedsPersist(map[k][1], map[k][1].id, map[k][1].version,
                     load_storage_info(info_file)) }

\* the failures that a flush of the map meets: the orphans in kept are files
\* the flush tries to delete, and persist_item is called for the item under
\* the key failing
FaultHappens(manifest, kept, failing, outcome) ==
    /\ kept \subseteq ToRemove(storage_data, InfoToPersist(items))
    /\ failing # NoKey => failing \in KeysToPersist(items, storage_info)

\* a flush that gives up with Err when it cannot delete an orphan
FlushFaultStrict(manifest, kept, failing, outcome) ==
    /\ engine = "open"
    /\ FaultHappens(manifest, kept, failing, outcome)
    /\ IF manifest # "ok"
       THEN /\ storage_info' = FailedWrite(storage_info, manifest)
            /\ storage_data' = storage_data
            /\ HistoryReset("flush_err")
       ELSE /\ storage_info' = FlushInfo(items)
            /\ IF kept # {}
               THEN /\ storage_data' =
                          RemoveFiles(storage_data,
                                      ToRemove(storage_data, InfoToPersist(items)) \ kept)
                    /\ HistoryReset("flush_err")
               ELSE \E order \in Orders(PresentKeys(items)) :
                       LET info == InfoToPersist(items)
                           result ==
                               PersistItemsFault(order, info, items,
                                   load_storage_info(storage_info),
                                   RemoveFiles(storage_data, ToRemove(storage_data, info)),
                                   failing, outcome)
                       IN  /\ storage_data' = result.dir
                           /\ HistoryReset(IF result.ok THEN "flush_ok" ELSE "flush_err")
    /\ UNCHANGED <<poolVars, lockVars, instanceVars, callerVars, packetVars,
                   engine, items>>

\* a flush that empties the map when it returns Err
FlushFaultClears(manifest, kept, failing, outcome) ==
    /\ engine = "open"
    /\ FaultHappens(manifest, kept, failing, outcome)
    /\ IF manifest # "ok"
       THEN /\ storage_info' = FailedWrite(storage_info, manifest)
            /\ storage_data' = storage_data
            /\ items' = EmptyMap
            /\ HistoryReset("flush_err")
       ELSE /\ storage_info' = FlushInfo(items)
            /\ \E order \in Orders(PresentKeys(items)) :
                  LET info == InfoToPersist(items)
                      result ==
                          PersistItemsFault(order, info, items,
                              load_storage_info(storage_info),
                              RemoveFiles(storage_data,
                                          ToRemove(storage_data, info) \ kept),
                              failing, outcome)
                  IN  /\ storage_data' = result.dir
                      /\ items' = IF result.ok THEN items ELSE EmptyMap
                      /\ HistoryReset(IF result.ok THEN "flush_ok" ELSE "flush_err")
    /\ UNCHANGED <<poolVars, lockVars, instanceVars, callerVars, packetVars, engine>>

\* storage.rs:214-298  flush with failures of the file system: the write of
\* the manifest ends as manifest says, remove_file is Err for the orphans in
\* kept, and persist_item is Err, in the way outcome says, for the item under
\* the key failing; one failure at least happens
FlushFault(manifest, kept, failing, outcome) ==
    /\ engine = "open"
    /\ FaultHappens(manifest, kept, failing, outcome)
    /\ IF manifest # "ok"
       THEN /\ storage_info' = FailedWrite(storage_info, manifest)
            /\ storage_data' = storage_data
            /\ HistoryReset("flush_err")
       ELSE /\ storage_info' = FlushInfo(items)
            /\ \E order \in Orders(PresentKeys(items)) :
                  LET info == InfoToPersist(items)
                      result ==
                          PersistItemsFault(order, info, items,
                              load_storage_info(storage_info),
                              RemoveFiles(storage_data,
                                          ToRemove(storage_data, info) \ kept),
                              failing, outcome)
                  IN  /\ storage_data' = result.dir
                      /\ HistoryReset(IF result.ok THEN "flush_ok" ELSE "flush_err")
    /\ UNCHANGED <<poolVars, lockVars, instanceVars, callerVars, packetVars,
                   engine, items>>

\* what last holds after a flush on the failing file system, and only then:
\* the flush returned Ok, the flush returned Err
FlushResults == {"flush_ok", "flush_err"}

\* the failures a flush can meet, one of them at least: a failed write of
\* the manifest ends the flush, so that nothing fails after it
FlushFaults ==
    { fault \in WriteOutcomes \X (SUBSET FileNames) \X (StoreKeys \cup {NoKey})
                  \X (WriteOutcomes \ {"ok"}) :
        /\ fault[1] # "ok" \/ fault[2] # {} \/ fault[3] # NoKey
        /\ fault[1] # "ok" => fault[2] = {} /\ fault[3] = NoKey
        /\ fault[3] = NoKey => fault[4] = "create" }

\* the items inserted on the failing file system: every id, key and version,
\* one object
IoFaultItems == { storage_item \in StorageItems : get_object(storage_item) = Some(1) }

IoFaultNext ==
    \/ StorageOpen
    \/ \E storage_item \in IoFaultItems : Insert(storage_item)
    \/ \E key \in StoreKeys : Remove(key)
    \/ Flush
    \/ \E fault \in FlushFaults : FlushFault(fault[1], fault[2], fault[3], fault[4])

\* a manifest file that decode_from_file cannot decode: its codec is one the
\* engine has no decoder for
UndecodableManifest ==
    Some([packet_type |-> PacketStorageInfo, codec_type |-> CodecCapnProto,
          data |-> EmptyMap])

\* D/storage-info is lost or replaced by a file that cannot be decoded
ManifestLost(file) ==
    /\ storage_info # file
    /\ storage_info' = file
    /\ HistoryReset("manifest_lost")
    /\ UNCHANGED <<poolVars, lockVars, instanceVars, callerVars, packetVars,
                   engine, items, storage_data>>

\* the blob file f is copied over the blob file g while no engine is open
BlobCopied(f, g) ==
    /\ engine = "closed"
    /\ f # g
    /\ FileExists(f)
    /\ FileExists(g)
    /\ storage_data' = [storage_data EXCEPT ![g] = storage_data[f]]
    /\ HistoryReset("none")
    /\ UNCHANGED <<poolVars, lockVars, instanceVars, callerVars, packetVars,
                   engine, items, storage_info>>

RecoveryNext ==
    \/ StorageOpen
    \/ \E storage_item \in StorageItems : Insert(storage_item)
    \/ \E key \in StoreKeys : Remove(key)
    \/ Flush
    \/ StorageLoad
    \/ StorageClose
    \/ \E f \in FileNames : BlobLost(f)
    \/ \E f \in FileNames : BlobLostOpen(f)
    \/ FlushCrash
    \/ \E file \in {NoFile, UndecodableManifest} : ManifestLost(file)

\* the engine on a directory in which a blob file can be replaced by another
ReplacedBlobNext ==
    \/ StorageOpen
    \/ \E storage_item \in StorageItems : Insert(storage_item)
    \/ StorageLoad
    \/ StorageClose
    \/ \E f \in FileNames, g \in FileNames : BlobCopied(f, g)

(***************************************************************************)
(* Properties of the data directory                                        *)
(***************************************************************************)

\* C7  After a flush that returned Ok, the manifest on disk maps every key
\* of the map to the id and version of its item, and the blob file named by
\* that id decodes to an item of that id and version.
FlushPostcondition ==
    last = "flush" =>
        \A k \in PresentKeys(items) :
            LET item == items[k][1]
                manifest == load_storage_info(storage_info)
                blob == load_item(storage_data, item.id)
            IN  /\ manifest # Absent
                /\ manifest[1][k] = Some(<< item.id, item.version >>)
                /\ blob # Absent
                /\ blob[1].id = item.id
                /\ blob[1].version = item.version

FlushIdempotent ==
    [][(last = "flush" /\ last' = "flush") =>
          /\ storage_info' = storage_info
          /\ storage_data' = storage_data]_vars

\* a second flush() in a row has run on a map with an item in it
FlushIdempotentWitness ==
    /\ reflushed
    /\ last = "flush"
    /\ PresentKeys(items) # {}
    /\ \A k \in PresentKeys(items) : FileExists(items[k][1].id)

\* C12  The id of the item stored under a key does not change while the key
\* stays in the map: no insert, update or update_inner_object on a key the map
\* holds changes the id stored under it.
IdStable ==
    [][\A k \in StoreKeys :
          ( /\ \/ \E storage_item \in StorageItems : Insert(storage_item)
               \/ \E key \in StoreKeys, obj \in CallerObjects : UpdateInnerObject(key, obj)
            /\ items[k] # Absent
            /\ items'[k] # Absent )
          => items'[k][1].id = items[k][1].id]_vars

\* C13  Every key returned by keys() is the key field of the item that get
\* returns for it: the map key equals the key of the item stored under it.
KeyConsistent ==
    \A k \in keys : get(k) # Absent /\ get(k)[1].key = k

\* both keys are back in the map after flush(); clear(); load()
KeyConsistentWitness ==
    /\ last = "flush_clear_load"
    /\ keys = StoreKeys

\* C14  After insert(item) or update(item), get(item.key) returns the item
\* given, whether the key was in the map or not, and keys() has item.key.
InsertThenGet ==
    [][\A storage_item \in StorageItems :
          Insert(storage_item) =>
              /\ items'[storage_item.key] = Some(storage_item)
              /\ storage_item.key \in PresentKeys(items')
              /\ \A k \in StoreKeys \ {storage_item.key} : items'[k] = items[k]]_vars

\* an item was inserted over the flushed item of the same key and id
InsertThenGetWitness ==
    /\ engine = "open"
    /\ last = "none"
    /\ \E k \in keys :
          LET blob == load_item(storage_data, get(k)[1].id)
          IN  /\ blob # Absent
              /\ blob[1].key = k
              /\ blob[1].version # get(k)[1].version

\* C15  After remove(k), k is not in keys() and get(k) is None; every other
\* key keeps its item; remove of a key the map does not hold changes nothing.
RemoveThenGet ==
    [][\A key \in StoreKeys :
          Remove(key) =>
              /\ items'[key] = Absent
              /\ key \notin PresentKeys(items')
              /\ \A k \in StoreKeys \ {key} : items'[k] = items[k]
              /\ items[key] = Absent => items' = items]_vars

\* remove took one key out of the map and left the other
RemoveThenGetWitness ==
    /\ last = "remove"
    /\ Cardinality(keys) = 1
    /\ \E k \in StoreKeys \ keys :
          /\ load_storage_info(storage_info) # Absent
          /\ load_storage_info(storage_info)[1][k] # Absent

\* C17  update_inner_object(k, v) returns true exactly when the item under k
\* has the payload encode(v) after the call; it returns false and leaves the
\* map unchanged when k is not in the map or when v cannot be encoded.
UpdateInnerObjectResultTruthful ==
    [][\A key \in StoreKeys, obj \in CallerObjects :
          UpdateInnerObject(key, obj) =>
              /\ UpdateInnerObjectResult(key, obj) <=>
                     /\ items'[key] # Absent
                     /\ encode_to_binary(obj) # Absent
                     /\ items'[key][1].data = encode_to_binary(obj)[1]
              /\ ~UpdateInnerObjectResult(key, obj) => items' = items]_vars

\* the fields of an item that are not its payload
FrameFields == {"id", "key", "version", "item_type", "description", "tags", "metafields"}

\* C38  update_inner_object(k, v) changes nothing but the payload of the item
\* under k: its id, key, version, item_type, description, tags and
\* metafields stay as they are, the version is not raised, and the items
\* under the other keys stay as they are.
UpdateInnerObjectFrame ==
    [][\A key \in StoreKeys, obj \in CallerObjects :
          UpdateInnerObject(key, obj) =>
              /\ \A k \in StoreKeys \ {key} : items'[k] = items[k]
              /\ items[key] = Absent => items'[key] = Absent
              /\ items[key] # Absent =>
                    /\ items'[key] # Absent
                    /\ \A field \in FrameFields :
                          items'[key][1][field] = items[key][1][field]]_vars

\* the payload of the item under "k1" was replaced by update_inner_object
\* while the map holds an item under "k2"
UpdateInnerObjectFrameWitness ==
    /\ "k1" \in inner_updated
    /\ "k2" \notin inner_updated
    /\ items["k1"] # Absent
    /\ items["k2"] # Absent
    /\ items["k1"][1].version = MaxVersion

\* C22  A flush of an item whose id and version are those of the manifest
\* entry of its key leaves the manifest entry and the blob file as they are,
\* whatever else of the item was changed since they were written; an open
\* reads the items from the blob files, so a reopen yields the item as it was
\* before the change.
PersistSkippedOnSameVersion ==
    [][/\ Flush =>
            \A k \in PresentKeys(items) :
                LET item == items[k][1]
                    prev == load_storage_info(storage_info)
                IN  (prev # Absent /\ prev[1][k] = Some(<< item.id, item.version >>)) =>
                        /\ load_storage_info(storage_info')[1][k] = prev[1][k]
                        /\ storage_data'[item.id] = storage_data[item.id]
       /\ (StorageOpen /\ engine' = "open") =>
            \A k \in StoreKeys :
                LET manifest == load_storage_info(storage_info)
                IN  items'[k] =
                        IF manifest # Absent /\ manifest[1][k] # Absent
                        THEN load_item(storage_data, manifest[1][k][1][1])
                        ELSE Absent]_vars

\* after a flush the map holds an item that differs from its blob in the data
\* alone: same id, same version
PersistSkippedOnSameVersionWitness ==
    /\ last = "flush"
    /\ \E k \in PresentKeys(items) :
          LET blob == load_item(storage_data, items[k][1].id)
          IN  /\ blob # Absent
              /\ blob[1].id = items[k][1].id
              /\ blob[1].version = items[k][1].version
              /\ blob[1].data # items[k][1].data

\* C28  During flush the blob of a key is written if no manifest could be
\* read before, or the manifest had no entry for the key, or the entry had
\* another id or a lower version than the item; otherwise the blob file is
\* left as it was.
PersistDecision ==
    [][Flush =>
          \A k \in PresentKeys(items) :
              LET item == items[k][1]
                  prev == load_storage_info(storage_info)
                  persist == \/ prev = Absent
                             \/ prev[1][k] = Absent
                             \/ item.id # prev[1][k][1][1]
                             \/ item.version > prev[1][k][1][2]
              IN  /\ persist => storage_data'[item.id] = encode_to_file(item, PacketStorageItem)
                  /\ ~persist => storage_data'[item.id] = storage_data[item.id]]_vars

\* one flush wrote the blob of one key and skipped the stale blob of the other
PersistDecisionWitness ==
    /\ last = "flush"
    /\ ~reflushed
    /\ PresentKeys(items) = StoreKeys
    /\ \E k \in StoreKeys :
          /\ load_item(storage_data, items[k][1].id) # items[k]
          /\ \A j \in StoreKeys \ {k} : load_item(storage_data, items[j][1].id) = items[j]

\* C30  An open whose load fails leaves the manifest and every file of the
\* blob directory as they were before the open.
FailedOpenKeepsDisk ==
    [][(StorageOpen /\ engine' = "closed") =>
          /\ storage_info' = storage_info
          /\ storage_data' = storage_data]_vars

\* the blobs the manifest file names, as load_item returns them
ManifestBlobs(info_file, dir) ==
    IF load_storage_info(info_file) = Absent THEN {}
    ELSE { load_item(dir, load_storage_info(info_file)[1][k][1][1]) :
             k \in PresentKeys(load_storage_info(info_file)[1]) }

\* C31  A load() that returns Err leaves the map as it was before the call; a
\* load() that returns Ok leaves in the map exactly the items of the blobs
\* that the manifest names.
LoadAllOrNothing ==
    [][StorageLoad =>
          IF Absent \in ManifestBlobs(storage_info, storage_data)
          THEN items' = items
          ELSE { items'[k] : k \in PresentKeys(items') }
                   = ManifestBlobs(storage_info, storage_data)]_vars

KeyMismatch(info_file, dir) ==
    /\ load_storage_info(info_file) # Absent
    /\ \E k \in PresentKeys(load_storage_info(info_file)[1]) :
          LET blob == load_item(dir, load_storage_info(info_file)[1][k][1][1])
          IN  blob # Absent /\ blob[1].key # k

\* C33  When the manifest maps a key to a blob whose item has another key,
\* load() returns Err (the open returns no engine) and no item is put in
\* the map under a key other than the one the manifest has for its blob.
ManifestKeyChecked ==
    [][KeyMismatch(storage_info, storage_data) =>
          /\ StorageOpen => engine' = "closed"
          /\ StorageLoad =>
                \A k \in PresentKeys(items') :
                    items'[k] = load_item(storage_data,
                                          load_storage_info(storage_info)[1][k][1][1])]_vars

\* C34  After the process stopped inside flush with the manifest written and
\* a blob not, the next open returns no engine when a blob that the manifest
\* names is missing, and otherwise an engine whose map has every key of the
\* manifest: never an engine with a part of the map.
CrashThenOpen ==
    [][(last = "crash" /\ StorageOpen) =>
          IF Absent \in ManifestBlobs(storage_info, storage_data)
          THEN engine' = "closed" /\ items' = EmptyMap
          ELSE /\ engine' = "open"
               /\ PresentKeys(items') = PresentKeys(load_storage_info(storage_info)[1])]_vars

\* the open after the stop inside flush has failed
CrashThenOpenWitness ==
    /\ last = "crash_open"
    /\ engine = "closed"

\* C37  A flush in which the deletion of orphan blob files fails, and no
\* write does, still writes the blob of every item that needs persist and
\* returns Ok; a flush in which the write of the manifest or of a blob fails
\* returns Err.  (Every step is either one with that outcome or not a flush
\* with these failures.)
OrphanFailureNotFatal ==
    [][last' \in FlushResults =>
          \A fault \in FlushFaults :
              \/ IF fault[1] = "ok" /\ fault[3] = NoKey
                 THEN /\ last' = "flush_ok"
                      /\ \A k \in KeysToPersist(items, storage_info) :
                            storage_data'[items[k][1].id]
                                = encode_to_file(items[k][1], PacketStorageItem)
                 ELSE last' = "flush_err"
              \/ ~FlushFault(fault[1], fault[2], fault[3], fault[4])]_vars

\* a flush returned Ok, wrote a blob and left an orphan file it could not
\* delete
OrphanFailureNotFatalWitness ==
    /\ last = "flush_ok"
    /\ \E f \in FileNames :
          /\ FileExists(f)
          /\ to_ascii_lowercase(f) \notin ItemIds(InfoToPersist(items))
    /\ \E k \in PresentKeys(items) :
          storage_data[items[k][1].id] = encode_to_file(items[k][1], PacketStorageItem)

\* C39  flush leaves the map of the engine as it is, when it returns Ok and
\* when it returns Err: a step that changes the map is no flush.
FlushKeepsMap ==
    [][\/ items' = items
       \/ ~( \/ Flush
             \/ /\ last' \in FlushResults
                /\ \E fault \in FlushFaults :
                      FlushFault(fault[1], fault[2], fault[3], fault[4]) )]_vars

\* a flush returned Err after a blob could not be written, and the map holds
\* its items
FlushKeepsMapWitness ==
    /\ last = "flush_err"
    /\ storage_info = FlushInfo(items)
    /\ PresentKeys(items) # {}
    /\ \E k \in PresentKeys(items) : storage_data[items[k][1].id] = TruncatedFile

\* C9  flush(); clear(); load() ends with the keys the map had before the
\* clear and, under every key, the object it had before the clear.
LoadAfterFlushRoundTrip ==
    last = "flush_clear_load" =>
        \A k \in StoreKeys :
            /\ items[k] = Absent <=> saved[k] = Absent
            /\ saved[k] # Absent /\ items[k] # Absent =>
                   get_object(items[k][1]) = get_object(saved[k][1])

\* C10  An object written by update_inner_object as the last write to its key
\* is the object read under that key after the engine is dropped and reopened.
InnerObjectUpdateDurable ==
    (last = "open" /\ engine = "open") =>
        \A k \in StoreKeys :
            expected[k] # Absent =>
                /\ items[k] # Absent
                /\ get_object(items[k][1]) = expected[k]

(***************************************************************************)
(* ThreadPool (anor-utils/src/threadpool.rs)                               *)
(***************************************************************************)
Workers == 1..NWorkers
Jobs == 1..MaxJobs

\* a worker thread that has ended has dropped its clone of the receiver
Ended(w) == worker_pc[w] \in {"exited", "panicked"}

\* ThreadPool::new: the channel is empty and every worker starts its loop
PoolInit ==
    /\ pool_pc = "open"
    /\ sender = TRUE
    /\ channel = <<>>
    /\ receiver = 0
    /\ worker_pc = [w \in Workers |-> "lock"]
    /\ worker_job = [w \in Workers |-> [n |-> 0, panics |-> FALSE]]
    /\ runs = [j \in Jobs |-> 0]
    /\ sent = 0
    /\ join_next = 0

\* ThreadPool::execute: the job is sent while a receiver is alive
Execute(panics) ==
    /\ pool_pc = "open"
    /\ sent < MaxJobs
    /\ \E w \in Workers : ~Ended(w)
    /\ channel' = Append(channel, [n |-> sent + 1, panics |-> panics])
    /\ sent' = sent + 1
    /\ UNCHANGED <<lockVars, instanceVars, storeVars, callerVars, packetVars,
                   pool_pc, sender, receiver, worker_pc, worker_job, runs, join_next>>

\* ThreadPool::execute: send() is Err when every receiver is gone, unwrap() panics
ExecuteDisconnected ==
    /\ pool_pc = "open"
    /\ sent < MaxJobs
    /\ \A w \in Workers : Ended(w)
    /\ pool_pc' = "unwinding"
    /\ UNCHANGED <<lockVars, instanceVars, storeVars, callerVars, packetVars,
                   sender, channel, receiver, worker_pc, worker_job, runs, sent, join_next>>

\* Drop for ThreadPool: drop(self.sender.take())
DropSender ==
    /\ pool_pc \in {"open", "unwinding"}
    /\ sender' = FALSE
    /\ pool_pc' = "join"
    /\ join_next' = 1
    /\ UNCHANGED <<lockVars, instanceVars, storeVars, callerVars, packetVars,
                   channel, receiver, worker_pc, worker_job, runs, sent>>

\* Drop for ThreadPool: thread.join() returns Ok when the worker has left its loop
JoinWorker ==
    /\ pool_pc = "join"
    /\ worker_pc[join_next] = "exited"
    /\ join_next' = join_next + 1
    /\ pool_pc' = IF join_next = NWorkers THEN "dropped" ELSE "join"
    /\ UNCHANGED <<lockVars, instanceVars, storeVars, callerVars, packetVars,
                   sender, channel, receiver, worker_pc, worker_job, runs, sent>>

\* Drop for ThreadPool: thread.join() is Err when the worker panicked, unwrap() panics
JoinPanic ==
    /\ pool_pc = "join"
    /\ worker_pc[join_next] = "panicked"
    /\ pool_pc' = "panicked"
    /\ UNCHANGED <<lockVars, instanceVars, storeVars, callerVars, packetVars,
                   sender, channel, receiver, worker_pc, worker_job, runs, sent, join_next>>

\* Worker::new: receiver.lock().unwrap()
WorkerLock(w) ==
    /\ worker_pc[w] = "lock"
    /\ receiver = 0
    /\ receiver' = w
    /\ worker_pc' = [worker_pc EXCEPT ![w] = "recv"]
    /\ UNCHANGED <<lockVars, instanceVars, storeVars, callerVars, packetVars,
                   pool_pc, sender, channel, worker_job, runs, sent, join_next>>

\* Worker::new: recv() returns Ok(job); the guard is dropped with the statement
WorkerRecv(w) ==
    /\ worker_pc[w] = "recv"
    /\ channel # <<>>
    /\ worker_job' = [worker_job EXCEPT ![w] = Head(channel)]
    /\ channel' = Tail(channel)
    /\ receiver' = 0
    /\ worker_pc' = [worker_pc EXCEPT ![w] = "job"]
    /\ UNCHANGED <<lockVars, instanceVars, storeVars, callerVars, packetVars,
                   pool_pc, sender, runs, sent, join_next>>

\* Worker::new: recv() returns Err once the channel is empty and the sender dropped
WorkerDisconnected(w) ==
    /\ worker_pc[w] = "recv"
    /\ channel = <<>>
    /\ ~sender
    /\ receiver' = 0
    /\ worker_pc' = [worker_pc EXCEPT ![w] = "exited"]
    /\ UNCHANGED <<lockVars, instanceVars, storeVars, callerVars, packetVars,
                   pool_pc, sender, channel, worker_job, runs, sent, join_next>>

\* Worker::new: job() returns and the loop goes on
JobReturns(w) ==
    /\ worker_pc[w] = "job"
    /\ ~worker_job[w].panics
    /\ runs' = [runs EXCEPT ![worker_job[w].n] = @ + 1]
    /\ worker_pc' = [worker_pc EXCEPT ![w] = "lock"]
    /\ UNCHANGED <<lockVars, instanceVars, storeVars, callerVars, packetVars,
                   pool_pc, sender, channel, receiver, worker_job, sent, join_next>>

\* Worker::new: job() panics and the worker thread unwinds
JobPanics(w) ==
    /\ worker_pc[w] = "job"
    /\ worker_job[w].panics
    /\ runs' = [runs EXCEPT ![worker_job[w].n] = @ + 1]
    /\ worker_pc' = [worker_pc EXCEPT ![w] = "panicked"]
    /\ UNCHANGED <<lockVars, instanceVars, storeVars, callerVars, packetVars,
                   pool_pc, sender, channel, receiver, worker_job, sent, join_next>>

WorkerNext(w) ==
    \/ WorkerLock(w)
    \/ WorkerRecv(w)
    \/ WorkerDisconnected(w)
    \/ JobReturns(w)
    \/ JobPanics(w)

PoolNext ==
    \/ \E panics \in BOOLEAN : Execute(panics)
    \/ ExecuteDisconnected
    \/ DropSender
    \/ JoinWorker
    \/ JoinPanic
    \/ \E w \in Workers : WorkerLock(w)
    \/ \E w \in Workers : WorkerRecv(w)
    \/ \E w \in Workers : WorkerDisconnected(w)
    \/ \E w \in Workers : JobReturns(w)
    \/ \E w \in Workers : JobPanics(w)

(***************************************************************************)
(* Properties of the thread pool                                           *)
(***************************************************************************)
\* C23  Every job passed to execute is called exactly once: never twice, and
\* eventually once; and when the drop of the pool has returned every job
\* passed to execute has been called and every worker has left its loop.
PoolCompletion ==
    /\ [](\A j \in Jobs : runs[j] <= 1)
    /\ [](pool_pc = "dropped" =>
            /\ \A j \in 1..sent : runs[j] = 1
            /\ \A w \in Workers : worker_pc[w] = "exited")
    /\ \A j \in Jobs : (sent >= j) ~> (runs[j] = 1)

(***************************************************************************)
(* Specifications                                                          *)
(***************************************************************************)
Init == LockInit /\ InstanceInit /\ StoreInit /\ CallerInit /\ PacketIdle /\ PoolIdle

Next == LockNext

\* the threads of one open engine
Spec == Init /\ [][Next]_vars

\* engines opened and closed on one data directory
InstanceSpecInit == LockIdle /\ InstanceInit /\ StoreInit /\ CallerInit /\ PacketIdle /\ PoolIdle

InstanceSpec == InstanceSpecInit /\ [][InstanceNext]_vars

\* one engine, its callers' operations and its data directory
StoreSpecInit == LockIdle /\ InstanceInit /\ StoreInit /\ CallerInit /\ PacketIdle /\ PoolIdle

StoreSpec == StoreSpecInit /\ [][StoreNext]_vars

\* one engine and a caller that reads and writes through the facade
FacadeSpecInit == LockIdle /\ InstanceInit /\ StoreInit /\ CallerInit /\ PacketIdle /\ PoolIdle

FacadeSpec == FacadeSpecInit /\ [][FacadeNext]_vars

\* the parser and the loader on the bytes of one file
PacketSpecInit == LockIdle /\ InstanceInit /\ StoreInit /\ CallerInit /\ PacketInit /\ PoolIdle

PacketSpec == PacketSpecInit /\ [][PacketNext]_vars

PoolSpecInit == LockIdle /\ InstanceInit /\ StoreInit /\ CallerInit /\ PacketIdle /\ PoolInit

\* every worker thread that can take a step eventually takes one
PoolSpec ==
    /\ PoolSpecInit
    /\ [][PoolNext]_vars
    /\ \A w \in Workers : WF_vars(WorkerNext(w))

RecoverySpecInit == LockIdle /\ InstanceInit /\ StoreInit /\ CallerInit /\ PacketIdle /\ PoolIdle

RecoverySpec == RecoverySpecInit /\ [][RecoveryNext]_vars

ReplacedBlobSpecInit ==
    LockIdle /\ InstanceInit /\ StoreInit /\ CallerInit /\ PacketIdle /\ PoolIdle

ReplacedBlobSpec == ReplacedBlobSpecInit /\ [][ReplacedBlobNext]_vars

\* the engine on a file system whose writes and deletions can fail
IoFaultSpecInit == LockIdle /\ InstanceInit /\ StoreInit /\ CallerInit /\ PacketIdle /\ PoolIdle

IoFaultSpec == IoFaultSpecInit /\ [][IoFaultNext]_vars
====
